---------------------------- MODULE Spec2Model ----------------------------
(***************************************************************************)
(* Repository Planning Graph (pleaseai/rpg): the graph substrate           *)
(* (RepositoryPlanningGraph over a graphology multi-digraph) and the       *)
(* artifact grounder (PathTrie / computeLCA / ArtifactGrounder), and the    *)
(* read side: the graph's queries and the tools SearchNode, FetchNode and  *)
(* ExploreRPG.                                                             *)
(*                                                                         *)
(* Paths are JavaScript strings and are modelled as TLA+ strings, handled  *)
(* character by character (split, join, startsWith, dirname, sort).        *)
(***************************************************************************)
EXTENDS Integers, Sequences, FiniteSets, TLC

VARIABLES
    nodes,      \* graphology node map, in insertion order: <<[key, attrs]>>
    edges,      \* graphology edge map, in insertion order: <<[key, source, target, attrs]>>
    last,       \* outcome of the latest public call on the graph / grounder
    dirPaths,   \* computeLCA: the input Set<string>, in insertion order
    lcaPaths,   \* computeLCA: the array returned by the latest call
    lcaPrev,    \* computeLCA: how dirPaths was derived from the previous call
    lcaPc,      \* computeLCA: "new" (not yet called on dirPaths) | "called"
    answer,     \* the latest read call on the graph or a tool: its arguments and result
    explore,    \* ExploreRPG.traverse: the locals and call stack of the running call
    discover    \* DomainDiscovery.discover: the LLM calls made and the call's outcome

vars == <<nodes, edges, last, dirPaths, lcaPaths, lcaPrev, lcaPc, answer, explore, discover>>
graphVars == <<nodes, edges, last>>
lcaVars == <<dirPaths, lcaPaths, lcaPrev, lcaPc>>
toolVars == <<answer, explore, discover>>

(***************************************************************************)
(* Bounds of the model.                                                    *)
(***************************************************************************)
MaxPaths == 3       \* size of the Set handed to computeLCA
MaxEdges == 3       \* number of edges stored in the graph

(***************************************************************************)
(* Generic helpers on sequences.                                           *)
(***************************************************************************)
Range(s) == { s[i] : i \in 1..Len(s) }

Contains(s, x) == \E i \in 1..Len(s) : s[i] = x

\* new Set(array): first occurrences, in order
RECURSIVE Dedupe(_)
Dedupe(s) ==
    IF s = <<>> THEN <<>>
    ELSE LET init == Dedupe(SubSeq(s, 1, Len(s) - 1))
             x == s[Len(s)]
         IN IF Contains(init, x) THEN init ELSE Append(init, x)

DistinctSeqs(U, n) ==
    UNION { { s \in [1..k -> U] : \A i, j \in 1..k : i # j => s[i] # s[j] } : k \in 0..n }

(***************************************************************************)
(* JavaScript string operations used by the grounder.                      *)
(***************************************************************************)
CharAt(s, i) == SubSeq(s, i, i)

\* UTF-16 code unit order of the characters that occur in the modelled paths
AsciiOrder == "-./_abcdefghijklmnopqrstuvwxyz"

CharRank(c) == CHOOSE i \in 1..Len(AsciiOrder) : CharAt(AsciiOrder, i) = c

\* String.prototype.startsWith
StartsWith(s, prefix) ==
    /\ Len(prefix) <= Len(s)
    /\ SubSeq(s, 1, Len(prefix)) = prefix

\* the comparison of Array.prototype.sort() without a comparator: s < t by code units
RECURSIVE StrLess(_, _)
StrLess(s, t) ==
    IF Len(t) = 0 THEN FALSE
    ELSE IF Len(s) = 0 THEN TRUE
    ELSE IF CharAt(s, 1) = CharAt(t, 1)
         THEN StrLess(SubSeq(s, 2, Len(s)), SubSeq(t, 2, Len(t)))
         ELSE CharRank(CharAt(s, 1)) < CharRank(CharAt(t, 1))

\* [...lcaPaths] without the sort
Unsorted(arr) == arr

\* [...arr].sort()
RECURSIVE SortInsert(_, _)
SortInsert(sorted, x) ==
    IF sorted = <<>> THEN <<x>>
    ELSE IF StrLess(x, Head(sorted)) THEN <<x>> \o sorted
    ELSE <<Head(sorted)>> \o SortInsert(Tail(sorted), x)

RECURSIVE Sort(_)
Sort(arr) ==
    IF arr = <<>> THEN <<>>
    ELSE SortInsert(Sort(SubSeq(arr, 1, Len(arr) - 1)), arr[Len(arr)])

\* s.split('/'): the pieces between slashes, empty pieces included
RECURSIVE SplitFrom(_, _, _)
SplitFrom(s, i, piece) ==
    IF i > Len(s) THEN <<piece>>
    ELSE IF CharAt(s, i) = "/" THEN <<piece>> \o SplitFrom(s, i + 1, "")
    ELSE SplitFrom(s, i + 1, piece \o CharAt(s, i))

Split(s) == SplitFrom(s, 1, "")

\* segments.join('/')
RECURSIVE Join(_)
Join(segments) ==
    IF segments = <<>> THEN ""
    ELSE IF Len(segments) = 1 THEN segments[1]
    ELSE segments[1] \o "/" \o Join(Tail(segments))

\* dirPath.split('/').filter(s => s.length > 0)
RECURSIVE NonEmpty(_)
NonEmpty(pieces) ==
    IF pieces = <<>> THEN <<>>
    ELSE IF Len(Head(pieces)) > 0 THEN <<Head(pieces)>> \o NonEmpty(Tail(pieces))
    ELSE NonEmpty(Tail(pieces))

Segments(dirPath) == NonEmpty(Split(dirPath))

\* node:path posix dirname
Dirname(p) ==
    IF Len(p) = 0 THEN "."
    ELSE LET hasRoot == CharAt(p, 1) = "/"
             \* 1-based positions i >= 2 of a slash followed by some non-slash
             cuts == { i \in 2..Len(p) :
                         /\ CharAt(p, i) = "/"
                         /\ \E j \in (i + 1)..Len(p) : CharAt(p, j) # "/" }
         IN IF cuts = {} THEN (IF hasRoot THEN "/" ELSE ".")
            ELSE LET end == CHOOSE i \in cuts : \A k \in cuts : k <= i
                 IN IF hasRoot /\ end = 2 THEN "//"
                    ELSE SubSeq(p, 1, end - 1)

(***************************************************************************)
(* PathTrie: a trie node is named by the segments leading to it; `kids' is *)
(* each node's children Map (keys in insertion order), `term' the nodes    *)
(* whose isTerminal flag is set.                                           *)
(***************************************************************************)
EmptyTrie == [kids |-> (<<>> :> <<>>), term |-> {}]

\* a branching test that needs a third child
isBranchingOverTwo(trie, node) == Len(trie.kids[node]) > 2

\* TrieNode.isBranching
isBranching(trie, node) == Len(trie.kids[node]) > 1

\* the loop of PathTrie.insert from trie node `current' over the remaining segments
RECURSIVE InsertFrom(_, _, _)
InsertFrom(trie, current, segments) ==
    IF segments = <<>> THEN [trie EXCEPT !.term = @ \cup {current}]
    ELSE LET segment == Head(segments)
             child == Append(current, segment)
             withChild ==
                 IF Contains(trie.kids[current], segment) THEN trie
                 ELSE [trie EXCEPT
                          !.kids = (child :> <<>>) @@ [@ EXCEPT ![current] = Append(@, segment)]]
         IN InsertFrom(withChild, child, Tail(segments))

\* PathTrie.insert
insert(trie, dirPath) == InsertFrom(trie, <<>>, Segments(dirPath))

\* the same loop written forwards (i++ after splice), which skips the element
\* that slides into a removed slot
RECURSIVE PruneForward(_, _, _)
PruneForward(results, prefix, i) ==
    IF i > Len(results) THEN results
    ELSE IF StartsWith(results[i], prefix)
         THEN PruneForward(SubSeq(results, 1, i - 1) \o SubSeq(results, i + 1, Len(results)),
                           prefix, i + 1)
         ELSE PruneForward(results, prefix, i + 1)

PruneSkipping(results, prefix) == PruneForward(results, prefix, 1)

\* no pruning at all
PruneNothing(results, prefix) == results

\* the pruning loop of postOrder: drop every result that starts with prefix
RECURSIVE Prune(_, _)
Prune(results, prefix) ==
    IF results = <<>> THEN <<>>
    ELSE LET init == Prune(SubSeq(results, 1, Len(results) - 1), prefix)
             r == results[Len(results)]
         IN IF StartsWith(r, prefix) THEN init ELSE Append(init, r)

\* PathTrie.postOrder: the state is [trie, results]
RECURSIVE postOrder(_, _)
RECURSIVE PostOrderKids(_, _, _)
PostOrderKids(st, pathSegments, i) ==
    IF i > Len(st.trie.kids[pathSegments]) THEN st
    ELSE PostOrderKids(postOrder(st, Append(pathSegments, st.trie.kids[pathSegments][i])),
                       pathSegments, i + 1)

postOrder(st, pathSegments) ==
    LET after == PostOrderKids(st, pathSegments, 1)
    IN IF Len(pathSegments) = 0 THEN after
       ELSE IF isBranching(after.trie, pathSegments) \/ pathSegments \in after.trie.term
            THEN LET currentPath == Join(pathSegments)
                     prefix == currentPath \o "/"
                 IN [trie |-> [kids |-> [after.trie.kids EXCEPT ![pathSegments] = <<>>],
                               term |-> after.trie.term \cup {pathSegments}],
                     results |-> Append(Prune(after.results, prefix), currentPath)]
            ELSE after

\* PathTrie.computeLCA
TrieComputeLCA(trie) == postOrder([trie |-> trie, results |-> <<>>], <<>>).results

RECURSIVE InsertAll(_, _)
InsertAll(trie, dirs) ==
    IF dirs = <<>> THEN trie ELSE InsertAll(insert(trie, Head(dirs)), Tail(dirs))

\* computeLCA(dirPaths: Set<string>): dirs is the Set in insertion order
computeLCA(dirs) ==
    IF Len(dirs) = 0 THEN <<>>
    ELSE IF Len(dirs) = 1 THEN dirs
    ELSE TrieComputeLCA(InsertAll(EmptyTrie, dirs))

(***************************************************************************)
(* computeLCA as a state machine: a caller holds a Set of directory paths, *)
(* calls computeLCA on it, and then either re-inserts the same paths in    *)
(* another order or feeds the returned paths back in as the next Set.      *)
(***************************************************************************)
\* directory strings handed to computeLCA: root-level ".", siblings, a nested
\* directory, segments sharing a character prefix, an unrelated tree, and an
\* absolute path
DirUniverse ==
    { ".", "src", "src/a", "src/b", "src/a-b", "src/a/c", "test/a", "/src" }

NoCall == [kind |-> "none", out |-> <<>>]

LcaInit ==
    /\ dirPaths \in DistinctSeqs(DirUniverse, MaxPaths)
    /\ lcaPaths = <<>>
    /\ lcaPrev = NoCall
    /\ lcaPc = "new"

\* const result = computeLCA(new Set(dirPaths))
LcaCall ==
    /\ lcaPc = "new"
    /\ lcaPaths' = computeLCA(dirPaths)
    /\ lcaPc' = "called"
    /\ UNCHANGED <<dirPaths, lcaPrev>>
    /\ UNCHANGED <<graphVars, toolVars>>

\* the same Set built in another insertion order
LcaPermute ==
    /\ lcaPc = "called"
    /\ \E p \in DistinctSeqs(Range(dirPaths), Len(dirPaths)) :
          /\ Len(p) = Len(dirPaths)
          /\ p # dirPaths
          /\ dirPaths' = p
    /\ lcaPrev' = [kind |-> "permute", out |-> lcaPaths]
    /\ lcaPaths' = <<>>
    /\ lcaPc' = "new"
    /\ UNCHANGED <<graphVars, toolVars>>

\* new Set(result) becomes the next input
LcaReapply ==
    /\ lcaPc = "called"
    /\ dirPaths' = Dedupe(lcaPaths)
    /\ lcaPrev' = [kind |-> "reapply", out |-> lcaPaths]
    /\ lcaPaths' = <<>>
    /\ lcaPc' = "new"
    /\ UNCHANGED <<graphVars, toolVars>>

LcaNext == LcaCall \/ LcaPermute \/ LcaReapply

(***************************************************************************)
(* JavaScript objects are functions from property names to values; a       *)
(* missing property is a name outside the DOMAIN, {} is the empty function.*)
(***************************************************************************)
EmptyObject == <<>>

Has(obj, k) == k \in DOMAIN obj

\* Object.assign({}, base, updates) and the spread {...base, ...updates}
Assign(base, updates) ==
    [k \in (DOMAIN base) \cup (DOMAIN updates) |->
        IF k \in DOMAIN updates THEN updates[k] ELSE base[k]]

\* ...obj?.prop: the properties of obj.prop, none when obj has no such property
SpreadOf(obj, k) == IF Has(obj, k) THEN obj[k] ELSE EmptyObject

(***************************************************************************)
(* Nodes and edges (graph/node.ts, graph/edge.ts).                         *)
(***************************************************************************)
HighLevel == "high_level"
LowLevel == "low_level"
Functional == "functional"
Dependency == "dependency"

isHighLevelNode(node) == node.type = HighLevel
isLowLevelNode(node) == node.type = LowLevel
isFunctionalEdge(edge) == edge.type = Functional
isDependencyEdge(edge) == edge.type = Dependency

createHighLevelNode(id) ==
    [id |-> id, type |-> HighLevel, feature |-> [description |-> id]]

createLowLevelNode(id, metadata) ==
    [id |-> id, type |-> LowLevel, feature |-> [description |-> id], metadata |-> metadata]

createFunctionalEdge(source, target) ==
    [source |-> source, target |-> target, type |-> Functional]

createDependencyEdge(source, target) ==
    [source |-> source, target |-> target, type |-> Dependency, dependencyType |-> "import"]

(***************************************************************************)
(* RepositoryPlanningGraph over graphology's Graph({multi, directed}).     *)
(***************************************************************************)
\* graph.hasNode
hasNode(ns, id) == \E i \in 1..Len(ns) : ns[i].key = id

NodeIndex(ns, id) == CHOOSE i \in 1..Len(ns) : ns[i].key = id

\* getNode: defined only when hasNode
getNode(ns, id) == ns[NodeIndex(ns, id)].attrs

\* graph.hasEdge(key)
hasEdgeKey(es, key) == \E i \in 1..Len(es) : es[i].key = key

\* the edge key built by addEdge
EdgeKey(edge) == edge.source \o "->" \o edge.target \o ":" \o edge.type

\* the positions of sequence s that satisfy no removal, in order
RECURSIVE Without(_, _)
Without(s, drop) ==
    IF s = <<>> THEN <<>>
    ELSE LET init == Without(SubSeq(s, 1, Len(s) - 1), drop)
         IN IF Len(s) \in drop THEN init ELSE Append(init, s[Len(s)])

\* dropNode that detaches only the outgoing edges
dropNodeOutOnly(ns, es, id) ==
    [nodes |-> Without(ns, { i \in 1..Len(ns) : ns[i].key = id }),
     edges |-> Without(es, { i \in 1..Len(es) : es[i].source = id })]

\* graph.dropNode: the node and every edge attached to it
dropNode(ns, es, id) ==
    [nodes |-> Without(ns, { i \in 1..Len(ns) : ns[i].key = id }),
     edges |-> Without(es, { i \in 1..Len(es) : es[i].source = id \/ es[i].target = id })]

\* graph.replaceNodeAttributes: the attributes become the update
replaceNodeAttributes(ns, id, updates) ==
    [ns EXCEPT ![NodeIndex(ns, id)].attrs = updates]

\* graph.mergeNodeAttributes
mergeNodeAttributes(ns, id, updates) ==
    [ns EXCEPT ![NodeIndex(ns, id)].attrs = Assign(@, updates)]

\* the attributes of the picked edges, in the order given
EdgeAttributes(picked) == [i \in 1..Len(picked) |-> picked[i].attrs]

\* the positions in es of the edges leaving ("out") or entering ("in") nodeId
Incident(es, nodeId, side) ==
    { i \in 1..Len(es) : IF side = "out" THEN es[i].source = nodeId ELSE es[i].target = nodeId }

Neighbor(es, i, side) == IF side = "out" THEN es[i].target ELSE es[i].source

\* graphology keeps a node's edges per neighbour: the neighbours in the order
\* of their first edge, and the parallel edges of one neighbour latest first
NeighborRank(es, all, i, side) ==
    CHOOSE j \in all :
        /\ Neighbor(es, j, side) = Neighbor(es, i, side)
        /\ \A k \in all : Neighbor(es, k, side) = Neighbor(es, i, side) => j <= k

RECURSIVE AdjacencyFrom(_, _, _, _)
AdjacencyFrom(es, all, rest, side) ==
    IF rest = {} THEN <<>>
    ELSE LET first == CHOOSE i \in rest : \A k \in rest \ {i} :
                          \/ NeighborRank(es, all, i, side) < NeighborRank(es, all, k, side)
                          \/ /\ NeighborRank(es, all, i, side) = NeighborRank(es, all, k, side)
                             /\ i > k
         IN <<es[first]>> \o AdjacencyFrom(es, all, rest \ {first}, side)

\* graph.mapOutEdges(nodeId, ...) / graph.mapInEdges(nodeId, ...): iteration order
Adjacency(es, nodeId, side) ==
    AdjacencyFrom(es, Incident(es, nodeId, side), Incident(es, nodeId, side), side)

\* edges.filter((e) => e.type === edgeType)
OfType(picked, edgeType) ==
    Without(picked, { i \in 1..Len(picked) : picked[i].attrs.type # edgeType })

\* getOutEdges(nodeId, edgeType)
getOutEdges(ns, es, nodeId, edgeType) ==
    IF ~hasNode(ns, nodeId) THEN <<>>
    ELSE EdgeAttributes(OfType(Adjacency(es, nodeId, "out"), edgeType))

\* getInEdges(nodeId, edgeType)
getInEdges(ns, es, nodeId, edgeType) ==
    IF ~hasNode(ns, nodeId) THEN <<>>
    ELSE EdgeAttributes(OfType(Adjacency(es, nodeId, "in"), edgeType))

\* getChildren: the nodes at the targets of the outgoing Functional edges
getChildren(ns, es, nodeId) ==
    LET out == getOutEdges(ns, es, nodeId, Functional)
        present == Without(out, { i \in 1..Len(out) : ~hasNode(ns, out[i].target) })
    IN [i \in 1..Len(present) |-> getNode(ns, present[i].target)]

\* getParent: does the node have one (the first incoming Functional edge)
hasParent(ns, es, nodeId) == Len(getInEdges(ns, es, nodeId, Functional)) > 0

getParent(ns, es, nodeId) == getNode(ns, getInEdges(ns, es, nodeId, Functional)[1].source)

\* getHighLevelNodes
getHighLevelNodes(ns) ==
    LET hl == Without(ns, { i \in 1..Len(ns) : ~isHighLevelNode(ns[i].attrs) })
    IN [i \in 1..Len(hl) |-> hl[i].attrs]

\* graph.addEdge without a key: a multi graph stores the parallel edge
addEdgeAutoKey(es, key, edge) ==
    [threw |-> FALSE,
     edges |-> Append(es, [key |-> key, source |-> edge.source, target |-> edge.target,
                           attrs |-> edge])]

\* graph.addEdgeWithKey that stores the edge before it throws
addEdgeWithKeyThenThrow(es, key, edge) ==
    [threw |-> hasEdgeKey(es, key),
     edges |-> Append(es, [key |-> key, source |-> edge.source, target |-> edge.target,
                           attrs |-> edge])]

\* graph.addEdgeWithKey: throws when the key is already in use
addEdgeWithKey(es, key, edge) ==
    IF hasEdgeKey(es, key) THEN [threw |-> TRUE, edges |-> es]
    ELSE [threw |-> FALSE,
          edges |-> Append(es, [key |-> key, source |-> edge.source, target |-> edge.target,
                                attrs |-> edge])]

(***************************************************************************)
(* ArtifactGrounder.                                                       *)
(***************************************************************************)
\* dirSet = childDirs: the directories of the earlier children are lost
KeepLastChild(dirSet, childDirs) == childDirs

\* for (const dir of childDirs) dirSet.add(dir)
AddAll(dirSet, childDirs) == Dedupe(dirSet \o childDirs)

\* the metadata written with an extra that holds the paths only
GroundedMetadataNewExtra(node, lca) ==
    LET metadata == SpreadOf(node, "metadata")
    IN IF Len(lca) = 1
       THEN Assign(metadata, [entityType |-> "module", path |-> lca[1]])
       ELSE Assign(metadata,
                   [entityType |-> "module",
                    path |-> Sort(lca)[1],
                    extra |-> [paths |-> Sort(lca)]])

\* the metadata written by propagate for the LCA paths of a node
GroundedMetadata(node, lca) ==
    LET metadata == SpreadOf(node, "metadata")
    IN IF Len(lca) = 1
       THEN Assign(metadata, [entityType |-> "module", path |-> lca[1]])
       ELSE LET sorted == Sort(lca)
            IN Assign(metadata,
                      [entityType |-> "module",
                       path |-> sorted[1],
                       extra |-> Assign(SpreadOf(metadata, "extra"), [paths |-> sorted])])

\* ArtifactGrounder.propagate(nodeId).  `stack' holds the ids of the calls in
\* progress: the graph's edges do not change while grounding runs, so a call on
\* an id that is already in progress recurses without end (hung).
RECURSIVE propagate(_, _, _, _)
RECURSIVE PropagateChildren(_, _, _, _, _, _)
PropagateChildren(ns, es, children, i, stack, dirSet) ==
    IF i > Len(children) THEN [nodes |-> ns, hung |-> FALSE, dirs |-> dirSet]
    ELSE LET r == propagate(ns, es, children[i].id, stack)
         IN IF r.hung THEN r
            ELSE PropagateChildren(r.nodes, es, children, i + 1, stack, AddAll(dirSet, r.dirs))

propagate(ns, es, nodeId, stack) ==
    IF ~hasNode(ns, nodeId) THEN [nodes |-> ns, hung |-> FALSE, dirs |-> <<>>]
    ELSE LET node == getNode(ns, nodeId)
         IN IF isLowLevelNode(node)
            THEN LET metadata == SpreadOf(node, "metadata")
                 IN IF ~Has(metadata, "path") \/ Len(metadata.path) = 0
                    THEN [nodes |-> ns, hung |-> FALSE, dirs |-> <<>>]
                    ELSE [nodes |-> ns, hung |-> FALSE, dirs |-> <<Dirname(metadata.path)>>]
            ELSE IF nodeId \in stack
            THEN [nodes |-> ns, hung |-> TRUE, dirs |-> <<>>]
            ELSE LET r == PropagateChildren(ns, es, getChildren(ns, es, nodeId), 1,
                                            stack \cup {nodeId}, <<>>)
                 IN IF r.hung THEN r
                    ELSE IF isHighLevelNode(node) /\ Len(r.dirs) > 0
                    THEN LET lca == computeLCA(r.dirs)
                         IN IF Len(lca) >= 1
                            THEN [r EXCEPT !.nodes =
                                     mergeNodeAttributes(r.nodes, nodeId,
                                         [metadata |-> GroundedMetadata(getNode(r.nodes, nodeId), lca)])]
                            ELSE r
                    ELSE r

\* the loop of ArtifactGrounder.ground over the high-level nodes listed at its start
RECURSIVE GroundFrom(_, _, _, _)
GroundFrom(ns, es, highLevelNodes, i) ==
    IF i > Len(highLevelNodes) THEN [nodes |-> ns, hung |-> FALSE]
    ELSE IF hasParent(ns, es, highLevelNodes[i].id)
    THEN GroundFrom(ns, es, highLevelNodes, i + 1)
    ELSE LET r == propagate(ns, es, highLevelNodes[i].id, {})
         IN IF r.hung THEN [nodes |-> r.nodes, hung |-> TRUE]
            ELSE GroundFrom(r.nodes, es, highLevelNodes, i + 1)

ground(ns, es) == GroundFrom(ns, es, getHighLevelNodes(ns), 1)

(***************************************************************************)
(* The public calls, drawn from small input sets.                          *)
(***************************************************************************)
NodeIds == { "h1", "n2", "f1" }

FileMetadata(p) == [entityType |-> "file", path |-> p]

\* addHighLevelNode / addLowLevelNode arguments: "n2" is added as a high-level
\* node or as a file in one of two directories
NodeInputs ==
    { createHighLevelNode("h1"),
      createHighLevelNode("n2"),
      createLowLevelNode("n2", FileMetadata("src/b/y.ts")),
      createLowLevelNode("n2", FileMetadata("test/a/y.ts")),
      createLowLevelNode("f1", FileMetadata("src/a/x.ts")) }

\* addFunctionalEdge / addDependencyEdge arguments
EdgeInputs ==
    { createFunctionalEdge("h1", "n2"),
      createFunctionalEdge("h1", "f1"),
      createFunctionalEdge("n2", "f1"),
      createFunctionalEdge("n2", "n2"),
      createFunctionalEdge("n2", "h1"),
      createFunctionalEdge("f1", "h1"),
      createFunctionalEdge("f1", "n2"),
      createDependencyEdge("f1", "n2"),
      createDependencyEdge("n2", "h1") }

\* updateNode arguments
UpdateInputs == { <<"h1", [feature |-> [description |-> "renamed"]]>> }

Call(op, error) == [op |-> op, error |-> error]

Running == last.error # "hung"

GraphInit ==
    /\ nodes = <<>>
    /\ edges = <<>>
    /\ last = Call("init", "none")

\* addNode(node)
AddNode(node) ==
    /\ Running
    /\ IF hasNode(nodes, node.id)
       THEN /\ last' = Call("addNode", "NodeExists")
            /\ UNCHANGED <<nodes, edges>>
       ELSE /\ nodes' = Append(nodes, [key |-> node.id, attrs |-> node])
            /\ last' = Call("addNode", "none")
            /\ UNCHANGED edges
    /\ UNCHANGED <<lcaVars, toolVars>>

\* updateNode(id, updates)
UpdateNode(id, updates) ==
    /\ Running
    /\ IF ~hasNode(nodes, id)
       THEN /\ last' = Call("updateNode", "NodeNotFound")
            /\ UNCHANGED <<nodes, edges>>
       ELSE /\ nodes' = mergeNodeAttributes(nodes, id, updates)
            /\ last' = Call("updateNode", "none")
            /\ UNCHANGED edges
    /\ UNCHANGED <<lcaVars, toolVars>>

\* removeNode(id)
RemoveNode(id) ==
    /\ Running
    /\ IF ~hasNode(nodes, id)
       THEN /\ last' = Call("removeNode", "NodeNotFound")
            /\ UNCHANGED <<nodes, edges>>
       ELSE LET g == dropNode(nodes, edges, id)
            IN /\ nodes' = g.nodes
               /\ edges' = g.edges
               /\ last' = Call("removeNode", "none")
    /\ UNCHANGED <<lcaVars, toolVars>>

\* addEdge(edge), which addFunctionalEdge and addDependencyEdge end in
AddEdge(edge) ==
    /\ Running
    /\ Len(edges) < MaxEdges
    /\ IF ~hasNode(nodes, edge.source)
       THEN /\ last' = Call("addEdge", "SourceNotFound")
            /\ UNCHANGED <<nodes, edges>>
       ELSE IF ~hasNode(nodes, edge.target)
       THEN /\ last' = Call("addEdge", "TargetNotFound")
            /\ UNCHANGED <<nodes, edges>>
       ELSE LET r == addEdgeWithKey(edges, EdgeKey(edge), edge)
            IN /\ edges' = r.edges
               /\ last' = Call("addEdge", IF r.threw THEN "EdgeExists" ELSE "none")
               /\ UNCHANGED nodes
    /\ UNCHANGED <<lcaVars, toolVars>>

\* new ArtifactGrounder(rpg).ground()
Ground ==
    /\ Running
    /\ LET r == ground(nodes, edges)
       IN /\ nodes' = r.nodes
          /\ last' = Call("ground", IF r.hung THEN "hung" ELSE "none")
    /\ UNCHANGED edges
    /\ UNCHANGED <<lcaVars, toolVars>>

LcaIdle ==
    /\ dirPaths = <<>>
    /\ lcaPaths = <<>>
    /\ lcaPrev = NoCall
    /\ lcaPc = "new"

\* no read call made, no traversal running
NoAnswer == [op |-> "none"]

NotExploring == [pc |-> "idle"]

NotDiscovering == [pc |-> "idle"]

ToolIdle ==
    /\ answer = NoAnswer
    /\ explore = NotExploring
    /\ discover = NotDiscovering

Init == GraphInit /\ LcaIdle /\ ToolIdle

\* the graph's write operations, with every failing call
Next ==
    \/ \E node \in NodeInputs : AddNode(node)
    \/ \E u \in UpdateInputs : UpdateNode(u[1], u[2])
    \/ \E id \in NodeIds : RemoveNode(id)
    \/ \E edge \in EdgeInputs : AddEdge(edge)

Spec == Init /\ [][Next]_vars

\* building and editing a hierarchy with calls that succeed, and grounding it
NextGround ==
    \/ \E node \in NodeInputs : ~hasNode(nodes, node.id) /\ AddNode(node)
    \/ \E id \in NodeIds : hasNode(nodes, id) /\ RemoveNode(id)
    \/ \E edge \in EdgeInputs :
          /\ isFunctionalEdge(edge)
          /\ hasNode(nodes, edge.source)
          /\ hasNode(nodes, edge.target)
          /\ ~hasEdgeKey(edges, EdgeKey(edge))
          /\ AddEdge(edge)
    \/ Ground

SpecGround == Init /\ [][NextGround]_vars

\* computeLCA on its own
InitLCA == GraphInit /\ LcaInit /\ ToolIdle

SpecLCA == InitLCA /\ [][LcaNext]_vars

(***************************************************************************)
(* Properties of computeLCA (checked under SpecLCA).                       *)
(***************************************************************************)
\* p is a strict prefix of q, taken over '/'-separated segments
StrictSegmentPrefix(p, q) ==
    LET sp == Segments(p)
        sq == Segments(q)
    IN Len(sp) < Len(sq) /\ SubSeq(sq, 1, Len(sp)) = sp

\* d is written as its segments joined by '/' (relative, no empty segment)
Normalized(d) == Len(d) > 0 /\ Join(Segments(d)) = d

\* the directory that contains directory d
ParentDir(d) == Join(SubSeq(Segments(d), 1, Len(Segments(d)) - 1))

\* dirs are two or more distinct direct children of one non-root directory
SiblingDirs(dirs) ==
    /\ Len(dirs) >= 2
    /\ \A i \in 1..Len(dirs) : Normalized(dirs[i]) /\ Len(Segments(dirs[i])) >= 2
    /\ \A i, j \in 1..Len(dirs) : ParentDir(dirs[i]) = ParentDir(dirs[j])

\* C7: computeLCA returns the same set of paths for every insertion order of
\* the same set S: the call on a permuted Set returns, as a set, what the call
\* before the permutation returned.
C7_PermutationStable ==
    (lcaPc = "called" /\ lcaPrev.kind = "permute")
        => Range(lcaPaths) = Range(lcaPrev.out)

C7_Witness ==
    /\ lcaPc = "called"
    /\ lcaPrev.kind = "permute"
    /\ Len(dirPaths) >= 2
    /\ Len(lcaPaths) >= 2
    /\ lcaPaths # lcaPrev.out

\* C8: no path returned by computeLCA is a strict segment-wise prefix of
\* another returned path.
C8_NoOutputPrefixOfAnother ==
    lcaPc = "called"
        => \A i, j \in 1..Len(lcaPaths) : ~StrictSegmentPrefix(lcaPaths[i], lcaPaths[j])

C8_Witness ==
    /\ lcaPc = "called"
    /\ Len(lcaPaths) >= 2
    /\ \E i, j \in 1..Len(dirPaths) : StrictSegmentPrefix(dirPaths[i], dirPaths[j])

\* C9: computeLCA is idempotent: called on the set of paths it returned, it
\* returns that same set.
C9_Idempotent ==
    (lcaPc = "called" /\ lcaPrev.kind = "reapply")
        => Range(lcaPaths) = Range(lcaPrev.out)

C9_Witness ==
    /\ lcaPc = "called"
    /\ lcaPrev.kind = "reapply"
    /\ Len(dirPaths) >= 2
    /\ Range(lcaPaths) = Range(dirPaths)

\* C10: for two or more distinct direct children of a non-root directory p,
\* computeLCA returns exactly <<p>>, also when the children's names share a
\* character prefix.
C10_SiblingsYieldParent ==
    (lcaPc = "called" /\ SiblingDirs(dirPaths))
        => lcaPaths = <<ParentDir(dirPaths[1])>>

C10_Witness ==
    /\ lcaPc = "called"
    /\ SiblingDirs(dirPaths)
    /\ Len(dirPaths) = 3
    /\ Contains(dirPaths, "src/a")
    /\ Contains(dirPaths, "src/a-b")
    /\ lcaPaths = <<"src">>

(***************************************************************************)
(* Properties of the graph's write operations (checked under Spec).        *)
(***************************************************************************)
\* the stored edges with the identity (source, target, type) of edge
SameIdentity(es, edge) ==
    { i \in 1..Len(es) :
        /\ es[i].attrs.source = edge.source
        /\ es[i].attrs.target = edge.target
        /\ es[i].attrs.type = edge.type }

\* the stored Functional edges, as (source, target) pairs
FunctionalPairs(es) ==
    { <<es[i].source, es[i].target>> : i \in { j \in 1..Len(es) : isFunctionalEdge(es[j].attrs) } }

\* the nodes reachable from `from' over one or more of the pairs
RECURSIVE ReachVia(_, _)
ReachVia(pairs, seen) ==
    LET more == seen \cup { q[2] : q \in { r \in pairs : r[1] \in seen } }
    IN IF more = seen THEN seen ELSE ReachVia(pairs, more)

DescendantsVia(pairs, from) == ReachVia(pairs, { q[2] : q \in { r \in pairs : r[1] = from } })

\* C1: every stored edge has a source and a target that are existing nodes,
\* whatever addNode, addEdge, updateNode and removeNode calls were made
\* (addEdge refuses a missing endpoint, removeNode drops the incident edges).
C1_EdgeEndpointsExist ==
    \A i \in 1..Len(edges) :
        /\ hasNode(nodes, edges[i].source)
        /\ hasNode(nodes, edges[i].target)
        /\ hasNode(nodes, edges[i].attrs.source)
        /\ hasNode(nodes, edges[i].attrs.target)

\* a node with incoming and outgoing edges of both types was just removed and
\* an edge between the remaining nodes is still stored
C1_Witness ==
    /\ last = Call("removeNode", "none")
    /\ ~hasNode(nodes, "n2")
    /\ hasNode(nodes, "h1") /\ hasNode(nodes, "f1")
    /\ Len(edges) >= 1

\* C2 (as claimed): the Functional edges form a forest: every node has at most
\* one incoming Functional edge and no node is its own Functional descendant.
C2_FunctionalForest ==
    LET pairs == FunctionalPairs(edges)
    IN /\ \A id \in NodeIds : Cardinality({ q \in pairs : q[2] = id }) <= 1
       /\ \A id \in NodeIds : id \notin DescendantsVia(pairs, id)

\* C3: an addEdge call for an identity (source, target, type) that is already
\* stored is rejected and leaves the edge set as it was, and after any addEdge
\* call whose endpoints exist exactly one edge has that identity.
C3_AddEdgeTwiceOneEdge ==
    [][\A edge \in EdgeInputs :
          (AddEdge(edge) /\ hasNode(nodes, edge.source) /\ hasNode(nodes, edge.target))
              => /\ Cardinality(SameIdentity(edges', edge)) = 1
                 /\ (SameIdentity(edges, edge) # {}
                        => edges' = edges /\ last'.error = "EdgeExists")]_vars

\* the second call has just been rejected and the first call's edge is stored
C3_Witness ==
    /\ last = Call("addEdge", "EdgeExists")
    /\ Len(edges) >= 1

\* the call left the node set, every node's attributes and the edge set alone
StoreUntouched == nodes' = nodes /\ edges' = edges

\* the ways a write fails
FailedWrites ==
    { Call("addNode", "NodeExists"), Call("addEdge", "SourceNotFound"),
      Call("addEdge", "TargetNotFound"), Call("addEdge", "EdgeExists"),
      Call("updateNode", "NodeNotFound"), Call("removeNode", "NodeNotFound") }

\* C27: every failing write (addNode with an id already present, addEdge with
\* a missing source or target or with a stored identity, updateNode or
\* removeNode with an unknown id) leaves the node set, every node's
\* attributes and the edge set exactly as they were before the call.
C27_FailedWriteLeavesStore ==
    [][last'.error # "none" => last' \in FailedWrites /\ StoreUntouched]_vars

\* a duplicate addEdge has just failed on a graph that holds two nodes and
\* two edges
C27_Witness ==
    /\ last = Call("addEdge", "EdgeExists")
    /\ Len(nodes) >= 2
    /\ Len(edges) >= 2

(***************************************************************************)
(* Properties of grounding (checked under SpecGround).                     *)
(***************************************************************************)
NodeKeys == { nodes[i].key : i \in 1..Len(nodes) }

HighLevelKeys == { k \in NodeKeys : isHighLevelNode(getNode(nodes, k)) }

LowLevelKeys == { k \in NodeKeys : isLowLevelNode(getNode(nodes, k)) }

FunctionalChildren(k) == { q[2] : q \in { r \in FunctionalPairs(edges) : r[1] = k } }

FunctionalParents(k) == { q[1] : q \in { r \in FunctionalPairs(edges) : r[2] = k } }

FunctionalAncestors(k) == { a \in NodeKeys : k \in DescendantsVia(FunctionalPairs(edges), a) }

IsForest ==
    /\ \A k \in NodeKeys : Cardinality(FunctionalParents(k)) <= 1
    /\ \A k \in NodeKeys : k \notin DescendantsVia(FunctionalPairs(edges), k)

\* the LowLevel nodes first reached on each downward Functional path from k
RECURSIVE FirstLowLevelFrom(_, _)
FirstLowLevelFrom(k, seen) ==
    UNION { IF c \in LowLevelKeys THEN {c}
            ELSE IF c \in seen THEN {}
            ELSE FirstLowLevelFrom(c, seen \cup {c}) : c \in FunctionalChildren(k) }

FirstLowLevel(k) == FirstLowLevelFrom(k, {k})

HasPath(k) ==
    /\ Has(getNode(nodes, k), "metadata")
    /\ Has(getNode(nodes, k).metadata, "path")
    /\ Len(getNode(nodes, k).metadata.path) > 0

PathOf(k) == getNode(nodes, k).metadata.path

\* D(H): the directories of the paths of those LowLevel nodes
DirsBelow(k) == { Dirname(PathOf(c)) : c \in { d \in FirstLowLevel(k) : HasPath(d) } }

SeqOfSet(S) == CHOOSE q \in [1..Cardinality(S) -> S] : Range(q) = S

\* computeLCA(D(H)), as a set of paths
LcaBelow(k) == Range(computeLCA(SeqOfSet(DirsBelow(k))))

Smallest(S) == CHOOSE x \in S : \A y \in S : x = y \/ StrLess(x, y)

Ascending(q) == \A i, j \in 1..Len(q) : i < j => StrLess(q[i], q[j])

HasExtraPaths(k) ==
    /\ Has(getNode(nodes, k), "metadata")
    /\ Has(getNode(nodes, k).metadata, "extra")
    /\ Has(getNode(nodes, k).metadata.extra, "paths")

ExtraPathsOf(k) == getNode(nodes, k).metadata.extra.paths

\* metadata.path / extra.paths of k are what the claim says they are
GroundedAsLca(k) ==
    /\ LcaBelow(k) # {}
    /\ HasPath(k)
    /\ PathOf(k) = Smallest(LcaBelow(k))
    /\ Cardinality(LcaBelow(k)) > 1
          => /\ HasExtraPaths(k)
             /\ Range(ExtraPathsOf(k)) = LcaBelow(k)
             /\ Len(ExtraPathsOf(k)) = Cardinality(LcaBelow(k))
             /\ Ascending(ExtraPathsOf(k))

\* directory p is dir or an ancestor of dir, segment by segment
AncestorOrSelfDir(p, dir) ==
    LET sp == Segments(p)
        sd == Segments(dir)
    IN Len(sp) <= Len(sd) /\ SubSeq(sd, 1, Len(sp)) = sp

AfterGround == last = Call("ground", "none")

\* the HighLevel nodes propagate is called on: the parentless ones and what is
\* below them through HighLevel nodes only
RECURSIVE VisitedFrom(_)
VisitedFrom(seen) ==
    LET more == seen \cup { c \in HighLevelKeys : FunctionalParents(c) \cap seen # {} }
    IN IF more = seen THEN seen ELSE VisitedFrom(more)

Visited == VisitedFrom({ k \in HighLevelKeys : FunctionalParents(k) = {} })

LeavesBelow(k) == { d \in FirstLowLevel(k) : HasPath(d) }

C6_ExtraPathsSortedWithPath ==
    AfterGround
        => \A k \in HighLevelKeys :
              (LeavesBelow(k) # {} /\ HasExtraPaths(k))
                  => /\ Ascending(ExtraPathsOf(k))
                     /\ HasPath(k)
                     /\ Contains(ExtraPathsOf(k), PathOf(k))

(***************************************************************************)
(* Strings of the read side: toLowerCase, includes, RegExp.                *)
(***************************************************************************)
UpperCase == "ABCDEFGHIJKLMNOPQRSTUVWXYZ"
LowerCase == "abcdefghijklmnopqrstuvwxyz"

\* the position of character c in string alphabet, 0 when absent
IndexIn(alphabet, c) ==
    IF \E i \in 1..Len(alphabet) : CharAt(alphabet, i) = c
    THEN CHOOSE i \in 1..Len(alphabet) : CharAt(alphabet, i) = c
    ELSE 0

\* String.prototype.toLowerCase
RECURSIVE toLowerCase(_)
toLowerCase(s) ==
    IF Len(s) = 0 THEN ""
    ELSE LET c == CharAt(s, 1)
             u == IndexIn(UpperCase, c)
         IN (IF u = 0 THEN c ELSE CharAt(LowerCase, u)) \o toLowerCase(SubSeq(s, 2, Len(s)))

\* String.prototype.includes
includes(s, q) ==
    \/ Len(q) = 0
    \/ \E i \in 1..(Len(s) - Len(q) + 1) : SubSeq(s, i, i + Len(q) - 1) = q

\* pattern.replace(/\*/g, '.*')
RECURSIVE ReplaceStars(_)
ReplaceStars(pattern) ==
    IF Len(pattern) = 0 THEN ""
    ELSE (IF CharAt(pattern, 1) = "*" THEN ".*" ELSE CharAt(pattern, 1))
             \o ReplaceStars(SubSeq(pattern, 2, Len(pattern)))

\* new RegExp(source) for a source of literal characters, '.' and '*': the
\* atoms in order, each with whether a '*' follows it
RECURSIVE RegExpFrom(_, _)
RegExpFrom(source, i) ==
    IF i > Len(source) THEN <<>>
    ELSE IF i < Len(source) /\ CharAt(source, i + 1) = "*"
         THEN <<[atom |-> CharAt(source, i), star |-> TRUE]>> \o RegExpFrom(source, i + 2)
         ELSE <<[atom |-> CharAt(source, i), star |-> FALSE]>> \o RegExpFrom(source, i + 1)

RegExp(source) == RegExpFrom(source, 1)

\* one atom against one character: '.' is any character, the rest literal
AtomMatches(atom, c) == atom = "." \/ atom = c

\* the regex from atom k on matches s from position i on (no end anchor)
RECURSIVE MatchHere(_, _, _, _)
MatchHere(regex, k, s, i) ==
    IF k > Len(regex) THEN TRUE
    ELSE IF regex[k].star
         THEN \E n \in 0..(Len(s) - i + 1) :
                 /\ \A j \in i..(i + n - 1) : AtomMatches(regex[k].atom, CharAt(s, j))
                 /\ MatchHere(regex, k + 1, s, i + n)
         ELSE /\ i <= Len(s)
              /\ AtomMatches(regex[k].atom, CharAt(s, i))
              /\ MatchHere(regex, k + 1, s, i + 1)

\* regex.test(s): a match starting anywhere
test(regex, s) == \E i \in 1..(Len(s) + 1) : MatchHere(regex, 1, s, i)

(***************************************************************************)
(* The graph's queries (graph/rpg.ts).                                     *)
(***************************************************************************)
\* getNodes: graph.mapNodes, in insertion order
getNodes(ns) == [i \in 1..Len(ns) |-> ns[i].attrs]

\* array.filter: the elements at the kept positions
Kept(arr, keep) == Without(arr, (1..Len(arr)) \ keep)

\* getLowLevelNodes
getLowLevelNodes(ns) ==
    Kept(getNodes(ns), { i \in 1..Len(ns) : isLowLevelNode(ns[i].attrs) })

\* feature.keywords ?? [] and feature.subFeatures ?? []
ListOf(feature, k) == IF Has(feature, k) THEN feature[k] ELSE <<>>

\* the filter predicate of searchByFeature
FeatureMatches(node, query) ==
    LET queryLower == toLowerCase(query)
        keywords == ListOf(node.feature, "keywords")
        subFeatures == ListOf(node.feature, "subFeatures")
    IN \/ includes(toLowerCase(node.feature.description), queryLower)
       \/ \E i \in 1..Len(keywords) : includes(toLowerCase(keywords[i]), queryLower)
       \/ \E i \in 1..Len(subFeatures) : includes(toLowerCase(subFeatures[i]), queryLower)

\* searchByFeature(query)
searchByFeature(ns, query) ==
    Kept(getNodes(ns), { i \in 1..Len(ns) : FeatureMatches(ns[i].attrs, query) })

\* the filter predicate of searchByPath: path && regex.test(path)
PathMatches(node, regex) ==
    /\ Has(node, "metadata")
    /\ Has(node.metadata, "path")
    /\ Len(node.metadata.path) > 0
    /\ test(regex, node.metadata.path)

\* searchByPath(pattern)
searchByPath(ns, pattern) ==
    LET regex == RegExp(ReplaceStars(pattern))
        low == getLowLevelNodes(ns)
    IN Kept(low, { i \in 1..Len(low) : PathMatches(low[i], regex) })

(***************************************************************************)
(* SearchNode (tools/search.ts).                                           *)
(***************************************************************************)
\* new Map(entries) that moves a repeated key to the end
MapKeepingLast(entries) ==
    LET last_(k) == CHOOSE i \in 1..Len(entries) :
                        entries[i][1] = k /\ \A j \in (i + 1)..Len(entries) : entries[j][1] # k
    IN Kept(entries, { i \in 1..Len(entries) : last_(entries[i][1]) = i })

\* new Map(entries): a key keeps the position of its first entry and takes the
\* value of its latest
RECURSIVE MapFromEntries(_)
MapFromEntries(entries) ==
    IF entries = <<>> THEN <<>>
    ELSE LET init == MapFromEntries(SubSeq(entries, 1, Len(entries) - 1))
             e == entries[Len(entries)]
         IN IF \E i \in 1..Len(init) : init[i][1] = e[1]
            THEN [i \in 1..Len(init) |-> IF init[i][1] = e[1] THEN e ELSE init[i]]
            ELSE Append(init, e)

\* Array.from(map.values())
MapValues(map) == [i \in 1..Len(map) |-> map[i][2]]

\* the loop over options.featureTerms: results.push(...searchByFeature(term))
RECURSIVE FeatureResults(_, _)
FeatureResults(ns, featureTerms) ==
    IF featureTerms = <<>> THEN <<>>
    ELSE FeatureResults(ns, SubSeq(featureTerms, 1, Len(featureTerms) - 1))
             \o searchByFeature(ns, featureTerms[Len(featureTerms)])

\* the feature part of query: modes 'features' and 'auto', when featureTerms is given
QueryFeaturePart(ns, options) ==
    IF options.mode \in {"features", "auto"} /\ Has(options, "featureTerms")
    THEN FeatureResults(ns, options.featureTerms)
    ELSE <<>>

\* the path part of query: modes 'snippets' and 'auto', when filePattern is a
\* non-empty string
QueryPathPart(ns, options) ==
    IF /\ options.mode \in {"snippets", "auto"}
       /\ Has(options, "filePattern")
       /\ Len(options.filePattern) > 0
    THEN searchByPath(ns, options.filePattern)
    ELSE <<>>

\* SearchNode.query(options)
query(ns, options) ==
    LET results == QueryFeaturePart(ns, options) \o QueryPathPart(ns, options)
        uniqueNodes == MapValues(MapFromEntries([i \in 1..Len(results) |->
                                                    <<results[i].id, results[i]>>]))
    IN [nodes |-> uniqueNodes, totalMatches |-> Len(uniqueNodes), mode |-> options.mode]

(***************************************************************************)
(* Graphs for the read side: built by addNode and addEdge calls that       *)
(* succeed, in every order, and grounded or not.                           *)
(***************************************************************************)
\* what a run of addNode calls stores
BuildNodes(inputs) == [i \in 1..Len(inputs) |-> [key |-> inputs[i].id, attrs |-> inputs[i]]]

\* what a run of addEdge calls stores
RECURSIVE BuildEdges(_)
BuildEdges(inputs) ==
    IF inputs = <<>> THEN <<>>
    ELSE addEdgeWithKey(BuildEdges(SubSeq(inputs, 1, Len(inputs) - 1)),
                        EdgeKey(inputs[Len(inputs)]), inputs[Len(inputs)]).edges

\* the runs of addNode calls over nodeInputs that all succeed
NodeRuns(nodeInputs) ==
    { q \in DistinctSeqs(nodeInputs, Cardinality({ n.id : n \in nodeInputs })) :
         \A i, j \in 1..Len(q) : i # j => q[i].id # q[j].id }

\* the runs of at most MaxEdges addEdge calls over edgeInputs that all succeed on ns
EdgeRuns(ns, edgeInputs) ==
    DistinctSeqs({ e \in edgeInputs : hasNode(ns, e.source) /\ hasNode(ns, e.target) }, MaxEdges)

\* the graph is one built from the inputs, then grounded or not as groundings says
BuiltGraph(nodeInputs, edgeInputs, groundings) ==
    \E q \in NodeRuns(nodeInputs) :
       \E r \in EdgeRuns(BuildNodes(q), edgeInputs) :
          \E grounded \in groundings :
             LET g == ground(BuildNodes(q), BuildEdges(r))
             IN /\ grounded => ~g.hung
                /\ nodes = IF grounded THEN g.nodes ELSE BuildNodes(q)
                /\ edges = BuildEdges(r)
                /\ last = Call(IF grounded THEN "ground" ELSE "init", "none")

\* nodes with descriptions, keywords and sub-features to search
Described(node, feature) == [node EXCEPT !.feature = feature]

SearchNodeInputs ==
    { Described(createHighLevelNode("h1"),
                [description |-> "Auth Module", keywords |-> <<"login">>]),
      Described(createHighLevelNode("n2"), [description |-> "data store"]),
      Described(createLowLevelNode("n2", FileMetadata("test/a/y.ts")),
                [description |-> "auth test"]),
      Described(createLowLevelNode("f1", FileMetadata("src/a/x.ts")),
                [description |-> "login form", subFeatures |-> <<"Validate">>]) }

SearchEdgeInputs ==
    { createFunctionalEdge("h1", "n2"),
      createFunctionalEdge("h1", "f1"),
      createFunctionalEdge("n2", "f1") }

FeatureTermInputs == { "auth", "LOGIN", "valid", "" }

FilePatternInputs == { "src/*.ts", "src/**", "test/a*", "x.ts", "*" }

\* SearchOptions: featureTerms, filePattern and searchScopes are optional
QueryInputs ==
    { Assign(Assign(Assign([mode |-> m], t), f), c) :
        m \in { "features", "snippets", "auto" },
        t \in { EmptyObject,
                [featureTerms |-> <<"auth">>],
                [featureTerms |-> <<"login", "AUTH">>] },
        f \in { EmptyObject, [filePattern |-> "src/*.ts"], [filePattern |-> "test/a*"] },
        c \in { EmptyObject, [searchScopes |-> <<"n2">>] } }

SearchInit ==
    /\ BuiltGraph(SearchNodeInputs, SearchEdgeInputs, BOOLEAN)
    /\ LcaIdle
    /\ ToolIdle

Answer(op, args, result) == [op |-> op, args |-> args, result |-> result]

\* the read calls are independent of one another: a behaviour makes one
Unanswered == answer = NoAnswer

\* rpg.searchByFeature(q)
SearchByFeature(q) ==
    /\ Unanswered
    /\ answer' = Answer("searchByFeature", q, searchByFeature(nodes, q))
    /\ UNCHANGED <<graphVars, lcaVars, explore, discover>>

\* rpg.searchByPath(pattern)
SearchByPath(pattern) ==
    /\ Unanswered
    /\ answer' = Answer("searchByPath", pattern, searchByPath(nodes, pattern))
    /\ UNCHANGED <<graphVars, lcaVars, explore, discover>>

\* new SearchNode(rpg).query(options)
Query(options) ==
    /\ Unanswered
    /\ answer' = Answer("query", options, query(nodes, options))
    /\ UNCHANGED <<graphVars, lcaVars, explore, discover>>

NextSearch ==
    \/ \E q \in FeatureTermInputs : SearchByFeature(q)
    \/ \E pattern \in FilePatternInputs : SearchByPath(pattern)
    \/ \E options \in QueryInputs : Query(options)

SpecSearch == SearchInit /\ [][NextSearch]_vars

(***************************************************************************)
(* getTopologicalOrder (graph/rpg.ts).                                     *)
(***************************************************************************)
\* Array.prototype.reverse left out
NotReversed(arr) == arr

\* Array.prototype.reverse
Reverse(arr) == [i \in 1..Len(arr) |-> arr[Len(arr) + 1 - i]]

\* visit(nodeId) with its loop over deps; st is [visited, result]
RECURSIVE visit(_, _, _, _)
RECURSIVE VisitDeps(_, _, _, _, _)
VisitDeps(ns, es, st, deps, i) ==
    IF i > Len(deps) THEN st
    ELSE VisitDeps(ns, es, visit(ns, es, st, deps[i].target), deps, i + 1)

visit(ns, es, st, nodeId) ==
    IF nodeId \in st.visited THEN st
    ELSE LET entered == [st EXCEPT !.visited = @ \cup {nodeId}]
             after == VisitDeps(ns, es, entered, getOutEdges(ns, es, nodeId, Dependency), 1)
         IN IF hasNode(ns, nodeId)
            THEN [after EXCEPT !.result = Append(@, getNode(ns, nodeId))]
            ELSE after

\* the loop of getTopologicalOrder over getNodes()
RECURSIVE VisitAll(_, _, _, _, _)
VisitAll(ns, es, st, all, i) ==
    IF i > Len(all) THEN st
    ELSE VisitAll(ns, es, visit(ns, es, st, all[i].id), all, i + 1)

\* getTopologicalOrder()
getTopologicalOrder(ns, es) ==
    Reverse(VisitAll(ns, es, [visited |-> {}, result |-> <<>>], getNodes(ns), 1).result)

\* dependency edges among three nodes, with a cycle of three and a cycle of two
OrderEdgeInputs ==
    { createDependencyEdge("f1", "n2"),
      createDependencyEdge("n2", "h1"),
      createDependencyEdge("h1", "f1"),
      createDependencyEdge("f1", "h1") }

\* the three nodes of the dependency and hierarchy graphs
PlainNodeInputs ==
    { createHighLevelNode("h1"),
      createHighLevelNode("n2"),
      createLowLevelNode("f1", FileMetadata("src/a/x.ts")) }

OrderInit ==
    /\ BuiltGraph(PlainNodeInputs, OrderEdgeInputs, {FALSE})
    /\ LcaIdle
    /\ ToolIdle

\* rpg.getTopologicalOrder()
GetTopologicalOrder ==
    /\ Unanswered
    /\ answer' = Answer("getTopologicalOrder", <<>>, getTopologicalOrder(nodes, edges))
    /\ UNCHANGED <<graphVars, lcaVars, explore, discover>>

\* rpg.getDependencies(nodeId)
getDependencies(ns, es, nodeId) ==
    LET out == getOutEdges(ns, es, nodeId, Dependency)
        present == Without(out, { i \in 1..Len(out) : ~hasNode(ns, out[i].target) })
    IN [i \in 1..Len(present) |-> getNode(ns, present[i].target)]

GetDependencies(nodeId) ==
    /\ Unanswered
    /\ answer' = Answer("getDependencies", nodeId, getDependencies(nodes, edges, nodeId))
    /\ UNCHANGED <<graphVars, lcaVars, explore, discover>>

NextOrder ==
    \/ GetTopologicalOrder
    \/ \E nodeId \in NodeIds : GetDependencies(nodeId)

SpecOrder == OrderInit /\ [][NextOrder]_vars

(***************************************************************************)
(* FetchNode (tools/fetch.ts).                                             *)
(***************************************************************************)
\* Array.prototype.join(separator)
RECURSIVE JoinBy(_, _)
JoinBy(pieces, separator) ==
    IF pieces = <<>> THEN ""
    ELSE IF Len(pieces) = 1 THEN pieces[1]
    ELSE pieces[1] \o separator \o JoinBy(Tail(pieces), separator)

\* the while loop of getFeaturePaths from node `current': the loop visits the
\* same node again only on a cycle of first parents, and then never ends
RECURSIVE FeaturePathLoop(_, _, _, _, _)
FeaturePathLoop(ns, es, current, paths, seen) ==
    IF current \in seen THEN [hung |-> TRUE, paths |-> paths]
    ELSE LET grown == <<getNode(ns, current).feature.description>> \o paths
         IN IF hasParent(ns, es, current)
            THEN FeaturePathLoop(ns, es, getParent(ns, es, current).id, grown,
                                 seen \cup {current})
            ELSE [hung |-> FALSE, paths |-> grown]

\* getFeaturePaths(nodeId)
getFeaturePaths(ns, es, nodeId) ==
    IF ~hasNode(ns, nodeId) THEN [hung |-> FALSE, featurePaths |-> <<"">>]
    ELSE LET r == FeaturePathLoop(ns, es, nodeId, <<>>, {})
         IN [hung |-> r.hung, featurePaths |-> <<JoinBy(r.paths, " / ")>>]

\* the loop of get over allIds; st is [hung, entities, notFound]
RECURSIVE GetEach(_, _, _, _, _)
GetEach(ns, es, st, allIds, i) ==
    IF i > Len(allIds) \/ st.hung THEN st
    ELSE IF hasNode(ns, allIds[i])
    THEN LET node == getNode(ns, allIds[i])
             fp == getFeaturePaths(ns, es, node.id)
             detail == Assign([node |-> node, featurePaths |-> fp.featurePaths],
                              IF Has(node, "sourceCode")
                              THEN [sourceCode |-> node.sourceCode] ELSE EmptyObject)
         IN IF fp.hung THEN [st EXCEPT !.hung = TRUE]
            ELSE GetEach(ns, es, [st EXCEPT !.entities = Append(@, detail)], allIds, i + 1)
    ELSE GetEach(ns, es, [st EXCEPT !.notFound = Append(@, allIds[i])], allIds, i + 1)

\* options.codeEntities ?? [] and options.featureEntities ?? []
IdsOption(options, k) == IF Has(options, k) THEN options[k] ELSE <<>>

\* FetchNode.get(options)
get(ns, es, options) ==
    GetEach(ns, es, [hung |-> FALSE, entities |-> <<>>, notFound |-> <<>>],
            IdsOption(options, "codeEntities") \o IdsOption(options, "featureEntities"), 1)

\* Functional edges among three nodes: chains, a second parent, cycles
FetchEdgeInputs == { edge \in EdgeInputs : isFunctionalEdge(edge) }

FetchInputs ==
    { [codeEntities |-> <<"f1">>],
      [featureEntities |-> <<"n2">>],
      [codeEntities |-> <<"f1", "zz">>, featureEntities |-> <<"h1">>],
      EmptyObject }

FetchInit ==
    /\ BuiltGraph(PlainNodeInputs, FetchEdgeInputs, {FALSE})
    /\ LcaIdle
    /\ ToolIdle

\* new FetchNode(rpg).get(options)
FetchGet(options) ==
    /\ Unanswered
    /\ answer' = Answer("get", options, get(nodes, edges, options))
    /\ UNCHANGED <<graphVars, lcaVars, explore, discover>>

\* rpg.getParent(nodeId)
GetParent(nodeId) ==
    /\ Unanswered
    /\ answer' = Answer("getParent", nodeId,
                        IF hasNode(nodes, nodeId) /\ hasParent(nodes, edges, nodeId)
                        THEN <<getParent(nodes, edges, nodeId)>> ELSE <<>>)
    /\ UNCHANGED <<graphVars, lcaVars, explore, discover>>

NextFetch ==
    \/ \E options \in FetchInputs : FetchGet(options)
    \/ \E nodeId \in NodeIds : GetParent(nodeId)

SpecFetch == FetchInit /\ [][NextFetch]_vars

(***************************************************************************)
(* ExploreRPG (tools/explore.ts). traverse is followed step by step: the   *)
(* call stack of the recursive explore is part of the state.               *)
(***************************************************************************)
DefaultMaxDepth == 3

\* const { startNode, edgeType, maxDepth = 3, direction = 'out' } = options
Destructured(options) ==
    Assign([maxDepth |-> DefaultMaxDepth, direction |-> "out"], options)

\* getEdgeTypes()
getEdgeTypes(edgeType) ==
    IF edgeType = "both" THEN <<Functional, Dependency>>
    ELSE <<IF edgeType = "functional" THEN Functional ELSE Dependency>>

\* the guard that lets a node be expanded one level too deep
TooDeepByTwo(depth, maxDepth) == depth > maxDepth + 1

\* depth > maxDepth
TooDeep(depth, maxDepth) == depth > maxDepth

\* the guard that never finds a node visited
NeverVisited(visited, nodeId) == FALSE

\* visited.has(nodeId)
Visits(visited, nodeId) == nodeId \in visited

\* { source: edge.source, target: edge.target, type: edge.type }
Traversed(edge) == [source |-> edge.source, target |-> edge.target, type |-> edge.type]

\* the edges one expansion walks, in order, each with the node explored next:
\* per edge type the outgoing edges (direction 'out' or 'both'), then the
\* incoming ones (direction 'in' or 'both')
RECURSIVE Walk(_, _, _, _, _, _)
Walk(ns, es, nodeId, types, direction, i) ==
    IF i > Len(types) THEN <<>>
    ELSE LET out == IF direction \in {"out", "both"}
                    THEN getOutEdges(ns, es, nodeId, types[i]) ELSE <<>>
             in == IF direction \in {"in", "both"}
                   THEN getInEdges(ns, es, nodeId, types[i]) ELSE <<>>
         IN [k \in 1..Len(out) |-> [edge |-> Traversed(out[k]), next |-> out[k].target]]
            \o [k \in 1..Len(in) |-> [edge |-> Traversed(in[k]), next |-> in[k].source]]
            \o Walk(ns, es, nodeId, types, direction, i + 1)

\* a pending call explore(nodeId, depth)
CallFrame(nodeId, depth) == [at |-> "call", nodeId |-> nodeId, depth |-> depth]

\* a call inside its loops, with the edges still to walk
LoopFrame(nodeId, depth, todo) ==
    [at |-> "loop", nodeId |-> nodeId, depth |-> depth, todo |-> todo]

Max(a, b) == IF a >= b THEN a ELSE b

Exploring == explore.pc = "running"

Top == explore.stack[Len(explore.stack)]

Popped == SubSeq(explore.stack, 1, Len(explore.stack) - 1)

\* traverse(options) up to the call explore(startNode, 0)
Traverse(options) ==
    /\ explore.pc = "idle"
    /\ explore' = [pc |-> "running",
                   options |-> Destructured(options),
                   visited |-> {},
                   nodes |-> <<>>,
                   edges |-> <<>>,
                   maxDepthReached |-> 0,
                   expanded |-> <<>>,
                   stack |-> <<CallFrame(options.startNode, 0)>>]
    /\ UNCHANGED <<graphVars, lcaVars, answer, discover>>

\* explore(nodeId, depth) from its entry to its first loop: the two early
\* returns, visited.add, nodes.push, maxDepthReached
ExploreEnter ==
    /\ Exploring
    /\ explore.stack # <<>>
    /\ Top.at = "call"
    /\ IF TooDeep(Top.depth, explore.options.maxDepth) \/ Visits(explore.visited, Top.nodeId)
       THEN explore' = [explore EXCEPT !.stack = Popped]
       ELSE IF ~hasNode(nodes, Top.nodeId)
       THEN explore' = [explore EXCEPT !.visited = @ \cup {Top.nodeId},
                                       !.stack = Popped]
       ELSE explore' =
               [explore EXCEPT
                   !.visited = @ \cup {Top.nodeId},
                   !.nodes = Append(@, getNode(nodes, Top.nodeId)),
                   !.maxDepthReached = Max(@, Top.depth),
                   !.expanded = Append(@, [nodeId |-> Top.nodeId, depth |-> Top.depth]),
                   !.stack = Append(Popped,
                                LoopFrame(Top.nodeId, Top.depth,
                                          Walk(nodes, edges, Top.nodeId,
                                               getEdgeTypes(explore.options.edgeType),
                                               explore.options.direction, 1)))]
    /\ UNCHANGED <<graphVars, lcaVars, answer, discover>>

\* one turn of a loop: edges.push(...) and the recursive call explore(next, depth + 1)
ExploreEdge ==
    /\ Exploring
    /\ explore.stack # <<>>
    /\ Top.at = "loop"
    /\ Top.todo # <<>>
    /\ explore' =
          [explore EXCEPT
              !.edges = Append(@, Head(Top.todo).edge),
              !.stack = Append(Append(Popped, [Top EXCEPT !.todo = Tail(@)]),
                               CallFrame(Head(Top.todo).next, Top.depth + 1))]
    /\ UNCHANGED <<graphVars, lcaVars, answer, discover>>

\* the loops of explore are through: the call returns
ExploreReturn ==
    /\ Exploring
    /\ explore.stack # <<>>
    /\ Top.at = "loop"
    /\ Top.todo = <<>>
    /\ explore' = [explore EXCEPT !.stack = Popped]
    /\ UNCHANGED <<graphVars, lcaVars, answer, discover>>

\* return { nodes, edges, maxDepthReached }
TraverseReturn ==
    /\ Exploring
    /\ explore.stack = <<>>
    /\ explore' = [explore EXCEPT !.pc = "done"]
    /\ answer' = Answer("traverse", explore.options,
                        [nodes |-> explore.nodes, edges |-> explore.edges,
                         maxDepthReached |-> explore.maxDepthReached])
    /\ UNCHANGED <<graphVars, lcaVars, discover>>

\* a Functional cycle through the three nodes and a dependency self-loop
ExploreEdgeInputs ==
    { createFunctionalEdge("h1", "n2"),
      createFunctionalEdge("n2", "f1"),
      createFunctionalEdge("f1", "h1"),
      createDependencyEdge("n2", "n2") }

\* ExploreOptions: maxDepth and direction are optional; "zz" is no node
ExploreInputs ==
    { Assign(Assign([startNode |-> n, edgeType |-> t], m), r) :
        n \in { "h1", "zz" },
        t \in { "functional", "dependency", "both" },
        m \in { EmptyObject, [maxDepth |-> 0], [maxDepth |-> 1] },
        r \in { EmptyObject, [direction |-> "in"], [direction |-> "both"] } }

\* the three nodes, and up to MaxEdges edges added in any order
ExploreInit ==
    /\ nodes = BuildNodes(<<createHighLevelNode("h1"), createHighLevelNode("n2"),
                            createLowLevelNode("f1", FileMetadata("src/a/x.ts"))>>)
    /\ \E r \in EdgeRuns(nodes, ExploreEdgeInputs) : edges = BuildEdges(r)
    /\ last = Call("init", "none")
    /\ LcaIdle
    /\ ToolIdle

ExploreStep == ExploreEnter \/ ExploreEdge \/ ExploreReturn \/ TraverseReturn

NextExplore ==
    \/ \E options \in ExploreInputs : Traverse(options)
    \/ ExploreEnter
    \/ ExploreEdge
    \/ ExploreReturn
    \/ TraverseReturn

\* the call runs in one JavaScript turn: once started, its steps are taken
SpecExplore == ExploreInit /\ [][NextExplore]_vars /\ WF_vars(ExploreStep)

\* a chain h1, n2, f1, f2 of Functional edges and a dependency of h1 on f1
ReachEdgeInputs ==
    { createFunctionalEdge("h1", "n2"),
      createFunctionalEdge("n2", "f1"),
      createFunctionalEdge("f1", "f2"),
      createDependencyEdge("h1", "f1") }

\* ExploreOptions of the calls made on the four nodes
ReachInputs ==
    { Assign([startNode |-> "h1", edgeType |-> t, maxDepth |-> m], r) :
        t \in { "functional", "both" },
        m \in { 1, 2 },
        r \in { EmptyObject, [direction |-> "both"] } }

\* four nodes, and any of the edges added in any order
ReachInit ==
    /\ nodes = BuildNodes(<<createHighLevelNode("h1"), createHighLevelNode("n2"),
                            createLowLevelNode("f1", FileMetadata("src/a/x.ts")),
                            createLowLevelNode("f2", FileMetadata("src/a/z.ts"))>>)
    /\ \E r \in DistinctSeqs(ReachEdgeInputs, Cardinality(ReachEdgeInputs)) :
          edges = BuildEdges(r)
    /\ last = Call("init", "none")
    /\ LcaIdle
    /\ ToolIdle

NextReach ==
    \/ \E options \in ReachInputs : Traverse(options)
    \/ ExploreEnter
    \/ ExploreEdge
    \/ ExploreReturn
    \/ TraverseReturn

SpecReach == ReachInit /\ [][NextReach]_vars

(***************************************************************************)
(* Properties of SearchNode.query and the graph's searches (checked under  *)
(* SpecSearch).                                                            *)
(***************************************************************************)
Queried == answer.op = "query"

\* the ids of the nodes of a result, in order
IdsOf(result) == [i \in 1..Len(result) |-> result[i].id]

\* C13: in auto mode, when feature search returns at least one node, snippet
\* search is skipped: every returned node is one that feature search returned,
\* none is in the result through the filePattern alone.
C13_AutoSkipsSnippetSearch ==
    (/\ Queried
     /\ answer.args.mode = "auto"
     /\ QueryFeaturePart(nodes, answer.args) # <<>>)
        => Range(answer.result.nodes) \subseteq Range(QueryFeaturePart(nodes, answer.args))

\* the scope ids with everything below them over Functional edges
ScopeSubtrees(scopes) ==
    Range(scopes) \cup UNION { DescendantsVia(FunctionalPairs(edges), c) : c \in Range(scopes) }

\* C14: in features mode with searchScopes given, every returned node lies in
\* the union of the Functional subtrees rooted at the scope ids.
C14_ScopesRestrictResults ==
    (/\ Queried
     /\ answer.args.mode = "features"
     /\ Has(answer.args, "searchScopes"))
        => Range(IdsOf(answer.result.nodes)) \subseteq ScopeSubtrees(answer.args.searchScopes)

\* the per-term feature results followed by the path results
Concatenation == QueryFeaturePart(nodes, answer.args) \o QueryPathPart(nodes, answer.args)

\* C15: query returns each node id once, at the position of its first
\* occurrence in the concatenation of the per-term feature results followed by
\* the path results, and with it the node of that id.
C15_DedupedFirstSeen ==
    Queried
        => /\ IdsOf(answer.result.nodes) = Dedupe(IdsOf(Concatenation))
           /\ Range(answer.result.nodes) = Range(Concatenation)
           /\ answer.result.totalMatches = Len(answer.result.nodes)

\* a query whose first hit comes again later, behind other hits
C15_Witness ==
    /\ Queried
    /\ Len(answer.result.nodes) >= 2
    /\ \E i \in 2..Len(Concatenation) :
          /\ Concatenation[i].id = Concatenation[1].id
          /\ \E j \in 2..(i - 1) : Concatenation[j].id # Concatenation[1].id
    /\ answer.result.nodes[1].id = Concatenation[1].id

\* a glob pattern read by segments: its characters, with '*' and '**' as tokens
RECURSIVE GlobFrom(_, _)
GlobFrom(pattern, i) ==
    IF i > Len(pattern) THEN <<>>
    ELSE IF CharAt(pattern, i) = "*" /\ i < Len(pattern) /\ CharAt(pattern, i + 1) = "*"
         THEN <<"**">> \o GlobFrom(pattern, i + 2)
         ELSE <<CharAt(pattern, i)>> \o GlobFrom(pattern, i + 1)

\* the text s[i .. i+n-1] is zero or more whole segments of s
WholeSegments(s, i, n) ==
    \/ n = 0
    \/ /\ i = 1 \/ CharAt(s, i - 1) = "/"
       /\ i + n = Len(s) + 1 \/ CharAt(s, i + n) = "/" \/ CharAt(s, i + n - 1) = "/"

\* the glob from token k on matches s from position i on: '*' stays within a
\* segment, '**' takes whole segments; anchored asks the match to end with s
RECURSIVE GlobHere(_, _, _, _, _)
GlobHere(glob, k, s, i, anchored) ==
    IF k > Len(glob) THEN (~anchored \/ i = Len(s) + 1)
    ELSE IF glob[k] = "*"
         THEN \E n \in 0..(Len(s) - i + 1) :
                 /\ \A j \in i..(i + n - 1) : CharAt(s, j) # "/"
                 /\ GlobHere(glob, k + 1, s, i + n, anchored)
    ELSE IF glob[k] = "**"
         THEN \E n \in 0..(Len(s) - i + 1) :
                 /\ WholeSegments(s, i, n)
                 /\ GlobHere(glob, k + 1, s, i + n, anchored)
    ELSE /\ i <= Len(s)
         /\ CharAt(s, i) = glob[k]
         /\ GlobHere(glob, k + 1, s, i + 1, anchored)

\* the pattern matches the whole path, by segments
GlobMatchesWhole(pattern, path) == GlobHere(GlobFrom(pattern, 1), 1, path, 1, TRUE)

\* the pattern matches some part of the path, by segments
GlobMatchesWithin(pattern, path) ==
    \E i \in 1..(Len(path) + 1) : GlobHere(GlobFrom(pattern, 1), 1, path, i, FALSE)

SearchedByPath == answer.op = "searchByPath"

\* the entries of node.metadata.extra.paths, none when absent
ExtraPathsIn(node) ==
    IF Has(node, "metadata") /\ Has(node.metadata, "extra") /\ Has(node.metadata.extra, "paths")
    THEN Range(node.metadata.extra.paths)
    ELSE {}

\* the node's metadata.path, as a set
PathIn(node) ==
    IF Has(node, "metadata") /\ Has(node.metadata, "path") THEN {node.metadata.path} ELSE {}

\* C16: searchByPath(pattern) returns every node, HighLevel or LowLevel, whose
\* metadata.path matches the pattern or that has an entry of
\* metadata.extra.paths matching it.
C16_PathSearchFindsAllNodes ==
    SearchedByPath
        => \A n \in Range(getNodes(nodes)) :
              (\E p \in PathIn(n) \cup ExtraPathsIn(n) : GlobMatchesWhole(answer.args, p))
                  => n \in Range(answer.result)

\* C17: searchByPath reads its glob by segments: a returned node's path has
\* the pattern matching in it with '*' kept within one segment (never across
\* a '/') and '**' taking zero or more whole segments.
C17_GlobBySegments ==
    SearchedByPath
        => \A n \in Range(answer.result) : GlobMatchesWithin(answer.args, n.metadata.path)

SearchedByFeature == answer.op = "searchByFeature"

\* C18: searchByFeature("") returns an empty result, whatever the graph holds.
C18_EmptyQueryEmptyResult ==
    (SearchedByFeature /\ answer.args = "") => answer.result = <<>>

(***************************************************************************)
(* Properties of getTopologicalOrder (checked under SpecOrder).            *)
(***************************************************************************)
\* the stored dependency edges, as (source, target) pairs
DependencyPairs(es) ==
    { <<es[i].source, es[i].target>> : i \in { j \in 1..Len(es) : isDependencyEdge(es[j].attrs) } }

DependenciesAcyclic ==
    \A k \in NodeKeys : k \notin DescendantsVia(DependencyPairs(edges), k)

\* the place of id in a list of nodes that holds it
PositionOf(result, id) == CHOOSE i \in 1..Len(result) : result[i].id = id

Ordered == answer.op = "getTopologicalOrder"

\* C19: when the dependency edges are acyclic, getTopologicalOrder lists the
\* source of every dependency edge before the edge's target.
C19_SourcesBeforeDependencies ==
    (Ordered /\ DependenciesAcyclic)
        => \A q \in DependencyPairs(edges) :
              /\ \E i \in 1..Len(answer.result) : answer.result[i].id = q[1]
              /\ \E i \in 1..Len(answer.result) : answer.result[i].id = q[2]
              /\ PositionOf(answer.result, q[1]) < PositionOf(answer.result, q[2])

\* a chain of two dependency edges over nodes that were added dependency first
C19_Witness ==
    /\ Ordered /\ DependenciesAcyclic
    /\ \E a, b, c \in NodeKeys :
          /\ {<<a, b>>, <<b, c>>} \subseteq DependencyPairs(edges)
          /\ NodeIndex(nodes, c) < NodeIndex(nodes, b)
          /\ NodeIndex(nodes, b) < NodeIndex(nodes, a)
          /\ IdsOf(answer.result) = <<a, b, c>>

(***************************************************************************)
(* Properties of FetchNode.get (checked under SpecFetch).                  *)
(***************************************************************************)
Fetched == answer.op = "get"

\* chain is a run of nodes from one without Functional parent down to id,
\* each the Functional parent of the next
AncestryChain(chain, id) ==
    /\ Len(chain) >= 1
    /\ FunctionalParents(chain[1]) = {}
    /\ chain[Len(chain)] = id
    /\ \A i \in 1..(Len(chain) - 1) : <<chain[i], chain[i + 1]>> \in FunctionalPairs(edges)

\* the feature descriptions along chain, joined by ' / '
AncestryString(chain) ==
    JoinBy([i \in 1..Len(chain) |-> getNode(nodes, chain[i]).feature.description], " / ")

\* C20: for every id that resolves to a node, get returns, and returns one
\* ancestry string: the feature descriptions, joined by ' / ', of a chain from
\* a node without Functional parent down to the requested node, each node the
\* Functional parent of the next - on every graph the public operations build.
C20_AncestryFromRoot ==
    Fetched
        => /\ ~answer.result.hung
           /\ \A i \in 1..Len(answer.result.entities) :
                 \E chain \in DistinctSeqs(NodeKeys, Cardinality(NodeKeys)) :
                    /\ AncestryChain(chain, answer.result.entities[i].node.id)
                    /\ answer.result.entities[i].featurePaths = <<AncestryString(chain)>>

(***************************************************************************)
(* Properties of ExploreRPG.traverse, checked under SpecExplore.           *)
(***************************************************************************)
Traversing == explore.pc \in {"running", "done"}

Returned == explore.pc = "done" /\ answer.op = "traverse"

\* no node is expanded twice
ExpandedOnce ==
    \A i, j \in 1..Len(explore.expanded) :
        explore.expanded[i].nodeId = explore.expanded[j].nodeId => i = j

\* no node is expanded deeper than maxDepth
ExpandedWithinDepth ==
    \A i \in 1..Len(explore.expanded) :
        explore.expanded[i].depth <= explore.options.maxDepth

\* C11: traverse terminates on every graph, cyclic ones included, for every
\* maxDepth, edgeType and direction: a started call always returns, and on
\* its way it expands each node at most once and none deeper than maxDepth.
C11_TraverseTerminates ==
    /\ [](Traversing => ExpandedOnce /\ ExpandedWithinDepth)
    /\ (Exploring ~> explore.pc = "done")

\* a call that returned after walking an edge back into its start node,
\* with more than one node expanded
C11_Witness ==
    /\ Returned
    /\ Len(explore.expanded) > 1
    /\ \E i \in 1..Len(answer.result.edges) :
          /\ answer.result.edges[i].target = answer.args.startNode
          /\ answer.args.direction = "out"

\* C12: with maxDepth = 0 and an existing start node, the returned nodes are
\* exactly the start node, whatever edges it has.
C12_DepthZeroOnlyStart ==
    ( /\ Returned
      /\ answer.args.maxDepth = 0
      /\ hasNode(nodes, answer.args.startNode) )
    => answer.result.nodes = <<getNode(nodes, answer.args.startNode)>>

\* a depth-0 call from a node that has edges of the walked type
C12_Witness ==
    /\ Returned
    /\ answer.args.maxDepth = 0
    /\ hasNode(nodes, answer.args.startNode)
    /\ answer.result.edges # <<>>

\* the ids of the returned nodes
ReturnedIds == { answer.result.nodes[i].id : i \in 1..Len(answer.result.nodes) }

\* C29: every edge in the result of traverse has both its source and its
\* target among the returned nodes, for every maxDepth, edgeType and direction.
C29_EdgesAmongReturnedNodes ==
    Returned =>
       \A i \in 1..Len(answer.result.edges) :
          /\ answer.result.edges[i].source \in ReturnedIds
          /\ answer.result.edges[i].target \in ReturnedIds

\* the nodes one step from id along the selected types in the selected direction
Neighbours(id, types, direction) ==
    { edges[i].target : i \in { k \in 1..Len(edges) :
          /\ direction \in {"out", "both"}
          /\ edges[k].source = id
          /\ edges[k].attrs.type \in Range(types) } }
    \cup
    { edges[i].source : i \in { k \in 1..Len(edges) :
          /\ direction \in {"in", "both"}
          /\ edges[k].target = id
          /\ edges[k].attrs.type \in Range(types) } }

\* the nodes at distance d or less from start
RECURSIVE WithinDistance(_, _, _, _)
WithinDistance(start, types, direction, d) ==
    IF d = 0 THEN {start}
    ELSE LET near == WithinDistance(start, types, direction, d - 1)
         IN near \cup UNION { Neighbours(id, types, direction) : id \in near }

\* C28: the nodes traverse returns are exactly the nodes whose shortest
\* distance from the start node, along edges of the selected types followed
\* in the selected direction, is at most maxDepth.
C28_NodesWithinMaxDepth ==
    (Returned /\ hasNode(nodes, answer.args.startNode))
       => ReturnedIds = WithinDistance(answer.args.startNode,
                                       getEdgeTypes(answer.args.edgeType),
                                       answer.args.direction, answer.args.maxDepth)

(***************************************************************************)
(* Serialization (graph/rpg.ts): serialize, toJSON, deserialize, fromJSON. *)
(* JSON text is a string, written and read character by character.         *)
(***************************************************************************)
\* the property names that occur, in the order an object lists them
PropertyOrder ==
    << "version", "config", "nodes", "edges", "name", "rootPath", "description",
       "id", "type", "feature", "keywords", "subFeatures", "metadata", "entityType",
       "path", "extra", "paths", "note", "source", "target", "dependencyType" >>

\* the JavaScript type of a property's value: an object, an array of objects,
\* an array of strings, or a string
KindOf(key) ==
    IF key \in { "config", "feature", "metadata", "extra" } THEN "object"
    ELSE IF key \in { "nodes", "edges" } THEN "objects"
    ELSE IF key \in { "keywords", "subFeatures", "paths" } THEN "strings"
    ELSE "string"

\* Object.keys(obj)
OwnKeys(obj) ==
    Without(PropertyOrder, { i \in 1..Len(PropertyOrder) : ~Has(obj, PropertyOrder[i]) })

\* the indentation of JSON.stringify(value, null, 2) at a nesting depth
RECURSIVE Indent(_)
Indent(depth) == IF depth = 0 THEN "" ELSE "  " \o Indent(depth - 1)

\* the characters of a JSON string literal: quotes and backslashes are escaped
RECURSIVE Escaped(_)
Escaped(s) ==
    IF Len(s) = 0 THEN ""
    ELSE LET c == CharAt(s, 1)
             rest == Escaped(SubSeq(s, 2, Len(s)))
         IN IF c \in { "\"", "\\" } THEN "\\" \o c \o rest ELSE c \o rest

Quote(s) == "\"" \o Escaped(s) \o "\""

\* JSON.stringify(value, null, 2)
RECURSIVE StringifyValue(_, _, _)
RECURSIVE StringifyMembers(_, _, _, _)
RECURSIVE StringifyItems(_, _, _, _)
StringifyValue(value, kind, depth) ==
    IF kind = "string" THEN Quote(value)
    ELSE IF kind = "object"
    THEN IF DOMAIN value = {} THEN "{}"
         ELSE "{\n" \o StringifyMembers(value, OwnKeys(value), 1, depth + 1)
                    \o "\n" \o Indent(depth) \o "}"
    ELSE IF Len(value) = 0 THEN "[]"
         ELSE "[\n" \o StringifyItems(value, IF kind = "objects" THEN "object" ELSE "string",
                                      1, depth + 1)
                    \o "\n" \o Indent(depth) \o "]"

StringifyMembers(obj, keys, i, depth) ==
    Indent(depth) \o Quote(keys[i]) \o ": "
       \o StringifyValue(obj[keys[i]], KindOf(keys[i]), depth)
       \o (IF i < Len(keys) THEN ",\n" \o StringifyMembers(obj, keys, i + 1, depth) ELSE "")

StringifyItems(arr, kind, i, depth) ==
    Indent(depth) \o StringifyValue(arr[i], kind, depth)
       \o (IF i < Len(arr) THEN ",\n" \o StringifyItems(arr, kind, i + 1, depth) ELSE "")

\* JSON.parse: white space between tokens is skipped
RECURSIVE SkipSpace(_, _)
SkipSpace(text, i) ==
    IF i <= Len(text) /\ CharAt(text, i) \in { " ", "\n" } THEN SkipSpace(text, i + 1) ELSE i

\* a string literal from the character after its opening quote
RECURSIVE ParseChars(_, _, _)
ParseChars(text, i, chars) ==
    LET c == CharAt(text, i)
    IN IF c = "\"" THEN [value |-> chars, next |-> i + 1]
       ELSE IF c = "\\" THEN ParseChars(text, i + 2, chars \o CharAt(text, i + 1))
       ELSE ParseChars(text, i + 1, chars \o c)

\* the object of the members read: a repeated name keeps its last value
ObjectOf(members) ==
    [k \in { members[j][1] : j \in 1..Len(members) } |->
        members[CHOOSE j \in 1..Len(members) :
                   /\ members[j][1] = k
                   /\ \A l \in (j + 1)..Len(members) : members[l][1] # k][2]]

RECURSIVE ParseValue(_, _)
RECURSIVE ParseMembers(_, _, _)
RECURSIVE ParseItems(_, _, _)
ParseValue(text, i) ==
    LET j == SkipSpace(text, i)
        c == CharAt(text, j)
        k == SkipSpace(text, j + 1)
    IN IF c = "\"" THEN ParseChars(text, j + 1, "")
       ELSE IF c = "{"
       THEN IF CharAt(text, k) = "}" THEN [value |-> EmptyObject, next |-> k + 1]
            ELSE ParseMembers(text, k, <<>>)
       ELSE IF CharAt(text, k) = "]" THEN [value |-> <<>>, next |-> k + 1]
            ELSE ParseItems(text, k, <<>>)

ParseMembers(text, i, members) ==
    LET name == ParseChars(text, SkipSpace(text, i) + 1, "")
        colon == SkipSpace(text, name.next)
        member == ParseValue(text, colon + 1)
        after == SkipSpace(text, member.next)
        all == Append(members, <<name.value, member.value>>)
    IN IF CharAt(text, after) = "," THEN ParseMembers(text, after + 1, all)
       ELSE [value |-> ObjectOf(all), next |-> after + 1]

ParseItems(text, i, items) ==
    LET item == ParseValue(text, i)
        after == SkipSpace(text, item.next)
        all == Append(items, item.value)
    IN IF CharAt(text, after) = "," THEN ParseItems(text, after + 1, all)
       ELSE [value |-> all, next |-> after + 1]

JSONParse(text) == ParseValue(text, 1).value

\* graph.mapEdges: the attributes of all edges, oldest first
getEdges(es) == EdgeAttributes(es)

\* serialize()
serialize(config, ns, es) ==
    [version |-> "1.0.0", config |-> config, nodes |-> getNodes(ns), edges |-> getEdges(es)]

\* toJSON()
toJSON(config, ns, es) == StringifyValue(serialize(config, ns, es), "object", 0)

\* SerializedRPGSchema.parse: the config object keeps its declared properties
SchemaParse(data) ==
    [data EXCEPT !.config =
        [k \in DOMAIN data.config \cap { "name", "rootPath", "description" } |->
            data.config[k]]]

\* the addNode and addEdge loops of deserialize; the first call that throws ends them
RECURSIVE AddNodes(_, _, _)
AddNodes(ns, nodeData, i) ==
    IF i > Len(nodeData) THEN [threw |-> "none", nodes |-> ns]
    ELSE IF hasNode(ns, nodeData[i].id) THEN [threw |-> "NodeExists", nodes |-> ns]
    ELSE AddNodes(Append(ns, [key |-> nodeData[i].id, attrs |-> nodeData[i]]), nodeData, i + 1)

RECURSIVE AddEdges(_, _, _, _)
AddEdges(ns, es, edgeData, i) ==
    IF i > Len(edgeData) THEN [threw |-> "none", edges |-> es]
    ELSE IF ~hasNode(ns, edgeData[i].source) THEN [threw |-> "SourceNotFound", edges |-> es]
    ELSE IF ~hasNode(ns, edgeData[i].target) THEN [threw |-> "TargetNotFound", edges |-> es]
    ELSE LET r == addEdgeWithKey(es, EdgeKey(edgeData[i]), edgeData[i])
         IN IF r.threw THEN [threw |-> "EdgeExists", edges |-> es]
            ELSE AddEdges(ns, r.edges, edgeData, i + 1)

\* RepositoryPlanningGraph.deserialize(data)
deserialize(data) ==
    LET parsed == SchemaParse(data)
        n == AddNodes(<<>>, parsed.nodes, 1)
        e == AddEdges(n.nodes, <<>>, parsed.edges, 1)
    IN IF n.threw # "none" THEN [threw |-> n.threw]
       ELSE IF e.threw # "none" THEN [threw |-> e.threw]
       ELSE [threw |-> "none", config |-> parsed.config, nodes |-> n.nodes, edges |-> e.edges]

\* RepositoryPlanningGraph.fromJSON(json)
fromJSON(json) == deserialize(JSONParse(json))

\* RPGConfig: rootPath and description are optional
ConfigInputs ==
    { [name |-> "repo"],
      [name |-> "repo", description |-> "a \"test\" repo"],
      [name |-> "repo", rootPath |-> "C:\\repo"] }

\* nodes that carry several feature properties and metadata.extra entries
SerializeNodeInputs ==
    { Assign(Described(createHighLevelNode("h1"),
                       [description |-> "auth", keywords |-> <<"login">>]),
             [metadata |-> [entityType |-> "module", path |-> "lib",
                            extra |-> [note |-> "kept"]]]),
      createHighLevelNode("n2"),
      createLowLevelNode("f1", FileMetadata("src/a/x.ts")) }

SerializeEdgeInputs ==
    { createFunctionalEdge("h1", "n2"),
      createFunctionalEdge("h1", "f1"),
      createDependencyEdge("f1", "n2") }

\* updateNode arguments: Partial<Node>
PartialNodeInputs ==
    { [feature |-> [description |-> "renamed"]],
      [feature |-> [keywords |-> <<"token">>]],
      [metadata |-> [path |-> "app"]],
      [metadata |-> [extra |-> [paths |-> <<"app", "lib">>]]],
      [id |-> "n2"],
      [id |-> "h9"] }

SerializeInit ==
    /\ BuiltGraph(SerializeNodeInputs, SerializeEdgeInputs, {FALSE})
    /\ LcaIdle
    /\ ToolIdle

\* RepositoryPlanningGraph.fromJSON(rpg.toJSON()) for the graph built with a config
RoundTrip(config) ==
    /\ Unanswered
    /\ answer' = Answer("fromJSON", [config |-> config, json |-> toJSON(config, nodes, edges)],
                        fromJSON(toJSON(config, nodes, edges)))
    /\ UNCHANGED <<graphVars, lcaVars, explore, discover>>

\* a built graph gets at most one updateNode call before it is written out
NextSerialize ==
    \/ \E id \in { "h1", "f1", "zz" } :
          \E updates \in PartialNodeInputs :
             Unanswered /\ last.op = "init" /\ UpdateNode(id, updates)
    \/ \E config \in ConfigInputs : RoundTrip(config)

SpecSerialize == SerializeInit /\ [][NextSerialize]_vars

(***************************************************************************)
(* DomainDiscovery (encoder/reorganization): discover, validateAreas,      *)
(* toPascalCase, and parseSolutionTag of prompts.ts.                       *)
(***************************************************************************)
\* the first position from i on where pattern occurs in text, 0 when nowhere
IndexOfFrom(text, pattern, i) ==
    LET at == { j \in i..(Len(text) - Len(pattern) + 1) :
                   SubSeq(text, j, j + Len(pattern) - 1) = pattern }
    IN IF at = {} THEN 0 ELSE CHOOSE j \in at : \A k \in at : j <= k

WhiteSpace == { " ", "\n" }

\* String.prototype.trim, and the \s* on both sides of the capture group
RECURSIVE Trim(_)
Trim(s) ==
    IF Len(s) = 0 THEN s
    ELSE IF CharAt(s, 1) \in WhiteSpace THEN Trim(SubSeq(s, 2, Len(s)))
    ELSE IF CharAt(s, Len(s)) \in WhiteSpace THEN Trim(SubSeq(s, 1, Len(s) - 1))
    ELSE s

\* where a JSON value that starts at i ends (the position after it), 0 when
\* the text holds no string, array or object there
RECURSIVE ScanString(_, _)
ScanString(text, i) ==
    IF i > Len(text) THEN 0
    ELSE IF CharAt(text, i) = "\"" THEN i + 1
    ELSE IF CharAt(text, i) = "\\" THEN ScanString(text, i + 2)
    ELSE ScanString(text, i + 1)

RECURSIVE ScanValue(_, _)
RECURSIVE ScanItems(_, _)
RECURSIVE ScanMembers(_, _)
ScanValue(text, i) ==
    LET j == SkipSpace(text, i)
        k == SkipSpace(text, j + 1)
    IN IF j > Len(text) THEN 0
       ELSE IF CharAt(text, j) = "\"" THEN ScanString(text, j + 1)
       ELSE IF CharAt(text, j) = "["
       THEN IF k <= Len(text) /\ CharAt(text, k) = "]" THEN k + 1 ELSE ScanItems(text, k)
       ELSE IF CharAt(text, j) = "{"
       THEN IF k <= Len(text) /\ CharAt(text, k) = "}" THEN k + 1 ELSE ScanMembers(text, k)
       ELSE 0

ScanItems(text, i) ==
    LET item == ScanValue(text, i)
        after == SkipSpace(text, item)
    IN IF item = 0 \/ after > Len(text) THEN 0
       ELSE IF CharAt(text, after) = "," THEN ScanItems(text, after + 1)
       ELSE IF CharAt(text, after) = "]" THEN after + 1
       ELSE 0

ScanMembers(text, i) ==
    LET j == SkipSpace(text, i)
        name == ScanString(text, j + 1)
        colon == SkipSpace(text, name)
        member == ScanValue(text, colon + 1)
        after == SkipSpace(text, member)
    IN IF j > Len(text) \/ CharAt(text, j) # "\"" THEN 0
       ELSE IF name = 0 \/ colon > Len(text) \/ CharAt(text, colon) # ":" THEN 0
       ELSE IF member = 0 \/ after > Len(text) THEN 0
       ELSE IF CharAt(text, after) = "," THEN ScanMembers(text, after + 1)
       ELSE IF CharAt(text, after) = "}" THEN after + 1
       ELSE 0

\* JSON.parse throws a SyntaxError on this text
SyntaxError(text) ==
    LET end == ScanValue(text, 1)
    IN end = 0 \/ SkipSpace(text, end) <= Len(text)

\* Array.isArray(JSON.parse(text))
IsArrayText(text) == CharAt(text, SkipSpace(text, 1)) = "["

\* parseSolutionTag(response): response.match(/<solution>\s*([\s\S]*?)\s*<\/solution>/)
\* and JSON.parse of the captured group
parseSolutionTag(response) ==
    LET open == IndexOfFrom(response, "<solution>", 1)
        close == IndexOfFrom(response, "</solution>", open + Len("<solution>"))
        group == Trim(SubSeq(response, open + Len("<solution>"), close - 1))
    IN IF open = 0 \/ close = 0 \/ Len(group) = 0 THEN [threw |-> "NoSolutionTag"]
       ELSE IF SyntaxError(group) THEN [threw |-> "SyntaxError"]
       ELSE [threw |-> "none", isArray |-> IsArrayText(group),
             value |-> IF IsArrayText(group) THEN JSONParse(group) ELSE <<>>]

Digits == "0123456789"

IsUpper(c) == IndexIn(UpperCase, c) > 0
IsLower(c) == IndexIn(LowerCase, c) > 0
IsAlnum(c) == IsUpper(c) \/ IsLower(c) \/ IndexIn(Digits, c) > 0

\* word.charAt(0).toUpperCase() + word.slice(1).toLowerCase()
Capitalized(word) ==
    LET c == CharAt(word, 1)
    IN (IF IsLower(c) THEN CharAt(UpperCase, IndexIn(LowerCase, c)) ELSE c)
          \o toLowerCase(SubSeq(word, 2, Len(word)))

\* the words of str: split at every run of non-alphanumeric characters and
\* between a lower-case letter and the upper-case letter after it
RECURSIVE WordsFrom(_, _, _)
WordsFrom(str, i, word) ==
    IF i > Len(str) THEN (IF Len(word) = 0 THEN <<>> ELSE <<word>>)
    ELSE LET c == CharAt(str, i)
             camel == /\ IsUpper(c)
                      /\ Len(word) > 0
                      /\ IsLower(CharAt(word, Len(word)))
         IN IF ~IsAlnum(c)
            THEN (IF Len(word) = 0 THEN <<>> ELSE <<word>>) \o WordsFrom(str, i + 1, "")
            ELSE IF camel THEN <<word>> \o WordsFrom(str, i + 1, c)
            ELSE WordsFrom(str, i + 1, word \o c)

\* toPascalCase(str)
toPascalCase(str) ==
    IF Len(str) > 0 /\ IsUpper(CharAt(str, 1))
          /\ \A i \in 1..Len(str) : IsAlnum(CharAt(str, i))
    THEN str
    ELSE LET words == WordsFrom(str, 1, "")
         IN JoinBy([i \in 1..Len(words) |-> Capitalized(words[i])], "")

\* the loop of validateAreas over an array of strings
RECURSIVE ValidAreas(_, _, _)
ValidAreas(areas, i, result) ==
    IF i > Len(areas) THEN result
    ELSE LET normalized == toPascalCase(Trim(areas[i]))
         IN IF Len(Trim(areas[i])) = 0 \/ Len(normalized) = 0 \/ Contains(result, normalized)
            THEN ValidAreas(areas, i + 1, result)
            ELSE ValidAreas(areas, i + 1, Append(result, normalized))

\* validateAreas(areas) for what parseSolutionTag returned
validateAreas(parsed) ==
    IF ~parsed.isArray THEN [threw |-> "TypeError"]
    ELSE LET result == ValidAreas(parsed.value, 1, <<>>)
         IN IF Len(result) = 0 THEN [threw |-> "NoValidAreas"]
            ELSE [threw |-> "none", functionalAreas |-> result]

\* formatFileGroups(fileGroups), one file per group
RECURSIVE formatFileGroups(_)
formatFileGroups(fileGroups) ==
    IF fileGroups = <<>> THEN ""
    ELSE "[" \o Head(fileGroups).groupLabel \o "]\n  - " \o Head(fileGroups).filePath
            \o ": " \o Head(fileGroups).description
            \o (IF Len(fileGroups) > 1 THEN "\n\n" \o formatFileGroups(Tail(fileGroups)) ELSE "")

\* buildDomainDiscoveryPrompt(fileGroups), its fixed wording shortened
buildDomainDiscoveryPrompt(fileGroups) ==
    [system |-> "architect",
     user |-> "Analyze:\n" \o formatFileGroups(fileGroups) \o "\nReturn a JSON array in <solution> tags."]

\* the user prompt of the second call
RetryPrompt(user) == user \o "\n\nIMPORTANT: respond with ONLY a JSON array in <solution> tags."

\* llmClient.complete(user, system) is called
Asked(calls, user, system) == Append(calls, [user |-> user, system |-> system])

\* discover throws
Throws(d, error) == [d EXCEPT !.pc = "threw", !.error = error]

\* discover from `const validated = this.validateAreas(areas)' to its end
Validated(d, parsed) ==
    LET validated == validateAreas(parsed)
    IN IF validated.threw # "none" THEN Throws(d, validated.threw)
       ELSE [d EXCEPT !.pc = "returned", !.functionalAreas = validated.functionalAreas]

\* discover(fileGroups) up to its first await
Discover(fileGroups) ==
    /\ discover.pc = "idle"
    /\ LET prompt == buildDomainDiscoveryPrompt(fileGroups)
       IN discover' = [pc |-> "asked", prompt |-> prompt,
                       calls |-> Asked(<<>>, prompt.user, prompt.system),
                       responses |-> <<>>, error |-> "none", functionalAreas |-> <<>>]
    /\ UNCHANGED <<graphVars, lcaVars, answer, explore>>

\* the first LLM call rejects: discover throws its own error
FirstCallFails ==
    /\ discover.pc = "asked"
    /\ discover' = Throws(discover, "LLMCallFailed")
    /\ UNCHANGED <<graphVars, lcaVars, answer, explore>>

\* the first LLM call resolves with content: parse it, and on a parse error
\* make the second call
FirstResponse(content) ==
    /\ discover.pc = "asked"
    /\ LET parsed == parseSolutionTag(content)
           d == [discover EXCEPT !.responses = Append(@, content)]
       IN discover' =
             IF parsed.threw # "none"
             THEN [d EXCEPT !.pc = "retried",
                            !.calls = Asked(@, RetryPrompt(d.prompt.user), d.prompt.system)]
             ELSE Validated(d, parsed)
    /\ UNCHANGED <<graphVars, lcaVars, answer, explore>>

\* the second LLM call rejects: the rejection leaves discover as it is
RetryCallFails ==
    /\ discover.pc = "retried"
    /\ discover' = Throws(discover, "LLMError")
    /\ UNCHANGED <<graphVars, lcaVars, answer, explore>>

\* the second LLM call resolves with content: a parse error is thrown on
RetryResponse(content) ==
    /\ discover.pc = "retried"
    /\ LET parsed == parseSolutionTag(content)
           d == [discover EXCEPT !.responses = Append(@, content)]
       IN discover' = IF parsed.threw # "none" THEN Throws(d, parsed.threw)
                      ELSE Validated(d, parsed)
    /\ UNCHANGED <<graphVars, lcaVars, answer, explore>>

\* FileFeatureGroup[]
FileGroupInputs ==
    { <<>>,
      << [groupLabel |-> "src", filePath |-> "src/a/x.ts", description |-> "login form"] >>,
      << [groupLabel |-> "src", filePath |-> "src/a/x.ts", description |-> "login form"],
         [groupLabel |-> "test", filePath |-> "test/a/y.ts", description |-> "auth test"] >> }

\* what the LLM may answer: tagged arrays, arrays without a usable name, tagged
\* JSON that is no array, and answers without a tag or without JSON in it
ContentInputs ==
    { "<solution>[\"Auth\"]</solution>",
      "Areas:\n<solution>\n[\"data store\", \"dataStore\", \"Auth\"]\n</solution>\n",
      "<solution>[]</solution>",
      "<solution>[\" \"]</solution>",
      "<solution>{\"areas\": [\"Auth\"]}</solution>",
      "<solution>\"Auth\"</solution>",
      "[\"Auth\"]",
      "<solution>Auth, DataStore</solution>",
      "<solution>[\"Auth\"</solution>",
      "<solution> </solution>",
      "<solution>[\"Auth\"]" }

DiscoverInit ==
    /\ GraphInit
    /\ LcaIdle
    /\ ToolIdle

NextDiscover ==
    \/ \E fileGroups \in FileGroupInputs : Discover(fileGroups)
    \/ FirstCallFails
    \/ \E content \in ContentInputs : FirstResponse(content)
    \/ RetryCallFails
    \/ \E content \in ContentInputs : RetryResponse(content)

\* the awaited LLM call settles
SpecDiscover == DiscoverInit /\ [][NextDiscover]_vars

(***************************************************************************)
(* RPGEncoder (encoder/encoder.ts): extractEntities, generateEntityId.     *)
(***************************************************************************)
\* String(n) for a line number
RECURSIVE NumberToString(_)
NumberToString(n) ==
    IF n < 10 THEN CharAt(Digits, n + 1)
    ELSE NumberToString(n \div 10) \o CharAt(Digits, (n % 10) + 1)

\* generateEntityId(filePath, entityType, entityName?, startLine?): the
\* optional arguments are the optional properties of `optional'
generateEntityId(filePath, entityType, optional) ==
    LET parts == <<filePath, entityType>>
        named == IF Has(optional, "entityName") /\ Len(optional.entityName) > 0
                 THEN Append(parts, optional.entityName) ELSE parts
        lined == IF Has(optional, "startLine")
                 THEN Append(named, NumberToString(optional.startLine)) ELSE named
    IN JoinBy(lined, ":")

\* path.relative(repoPath, file) for a file below repoPath
relative(repoPath, file) == SubSeq(file, Len(repoPath) + 2, Len(file))

\* mapEntityType: functions, classes and methods are kept
MappedTypes == { "function", "class", "method" }

\* convertCodeEntity, the extracted feature left out
convertCodeEntity(entity, filePath, entityId) ==
    [id |-> entityId,
     metadata |-> [entityType |-> entity.type, path |-> filePath,
                   startLine |-> entity.startLine, endLine |-> entity.endLine]]

\* the loop of extractEntities over parseResult.entities
RECURSIVE ConvertAll(_, _, _)
ConvertAll(parsed, relativePath, i) ==
    IF i > Len(parsed) THEN <<>>
    ELSE LET entityId == generateEntityId(relativePath, parsed[i].type,
                                          [entityName |-> parsed[i].name,
                                           startLine |-> parsed[i].startLine])
         IN (IF parsed[i].type \in MappedTypes
             THEN <<convertCodeEntity(parsed[i], relativePath, entityId)>> ELSE <<>>)
               \o ConvertAll(parsed, relativePath, i + 1)

\* extractEntities(file) for the entities the AST parser found in the file
extractEntities(repoPath, file, parsed) ==
    LET relativePath == relative(repoPath, file)
    IN << [id |-> generateEntityId(relativePath, "file", EmptyObject),
           metadata |-> [entityType |-> "file", path |-> relativePath]] >>
          \o ConvertAll(parsed, relativePath, 1)

\* CodeEntity, with the lines it spans
CodeEntity(type, name, startLine) ==
    [type |-> type, name |-> name, startLine |-> startLine, endLine |-> startLine + 2]

\* what the parser may find: the same function and the same method at two
\* positions, a class and a variable
CodeEntityInputs ==
    { CodeEntity("function", "login", 7),
      CodeEntity("function", "login", 12),
      Assign(CodeEntity("method", "login", 7), [parent |-> "Auth"]),
      Assign(CodeEntity("method", "login", 12), [parent |-> "Auth"]),
      CodeEntity("class", "Auth", 1),
      CodeEntity("variable", "login", 7) }

RepoPath == "/repo"

FileInputs == { "/repo/x.ts", "/repo/src/a/x.ts", "/repo/test/a/y.ts" }

\* parseResult.entities: at most two entities per file
ParseResultInputs == DistinctSeqs(CodeEntityInputs, 2)

\* extractEntities(file)
ExtractEntities(file, parsed) ==
    /\ Unanswered
    /\ answer' = Answer("extractEntities", [file |-> file, parsed |-> parsed],
                        extractEntities(RepoPath, file, parsed))
    /\ UNCHANGED <<graphVars, lcaVars, explore, discover>>

EncodeInit ==
    /\ GraphInit
    /\ LcaIdle
    /\ ToolIdle

NextEncode ==
    \E file \in FileInputs : \E parsed \in ParseResultInputs : ExtractEntities(file, parsed)

SpecEncode == EncodeInit /\ [][NextEncode]_vars

(***************************************************************************)
(* Properties of serialization, checked under SpecSerialize.               *)
(***************************************************************************)
Restored == answer.op = "fromJSON"

\* C21: fromJSON(toJSON(rpg)) is structurally equal to rpg: it is built (no
\* call of deserialize throws) and has the same config, the same nodes (ids
\* and attributes) and the same edges (source, target, type and attributes).
C21_RoundTripEqual ==
    Restored =>
       /\ answer.result.threw = "none"
       /\ answer.result.config = answer.args.config
       /\ Range(answer.result.nodes) = Range(nodes)
       /\ Range(answer.result.edges) = Range(edges)

\* the properties of obj.a.b, none when obj.a or obj.a.b is missing
SpreadOfIn(obj, a, b) == SpreadOf(SpreadOf(obj, a), b)

\* every property of `before' that `named' does not mention is in `after' with its value
KeepsUnmentioned(before, named, after) ==
    \A k \in DOMAIN before :
        ~Has(named, k) => Has(after, k) /\ after[k] = before[k]

\* C22: updateNode(id, partial) deep-merges into feature and metadata.extra:
\* the feature properties, the metadata.extra entries and the scalar metadata
\* fields that the update does not name keep their previous values.
C22_UpdateDeepMerges ==
    [][\A id \in NodeIds : \A updates \in PartialNodeInputs :
          (UpdateNode(id, updates) /\ hasNode(nodes, id))
              => LET before == getNode(nodes, id)
                     after == getNode(nodes', id)
                 IN /\ KeepsUnmentioned(SpreadOf(before, "feature"),
                                        SpreadOf(updates, "feature"),
                                        SpreadOf(after, "feature"))
                    /\ KeepsUnmentioned(SpreadOfIn(before, "metadata", "extra"),
                                        SpreadOfIn(updates, "metadata", "extra"),
                                        SpreadOfIn(after, "metadata", "extra"))
                    /\ KeepsUnmentioned(SpreadOf(before, "metadata"),
                                        Assign(SpreadOf(updates, "metadata"), [extra |-> "named"]),
                                        SpreadOf(after, "metadata"))]_vars

(***************************************************************************)
(* Grounding a built hierarchy whose nodes carry metadata of their own.    *)
(***************************************************************************)
\* a HighLevel node with metadata.extra, and "n2" as a HighLevel node, a file
\* in another directory or a file without a path
HierarchyNodeInputs ==
    { Assign(createHighLevelNode("h1"),
             [metadata |-> [entityType |-> "module", extra |-> [note |-> "kept"]]]),
      createHighLevelNode("n2"),
      createLowLevelNode("n2", FileMetadata("test/a/y.ts")),
      createLowLevelNode("n2", [entityType |-> "file"]),
      createLowLevelNode("f1", FileMetadata("src/a/x.ts")) }

HierarchyInit ==
    /\ BuiltGraph(HierarchyNodeInputs, FetchEdgeInputs, {FALSE})
    /\ LcaIdle
    /\ ToolIdle

NextHierarchy == Ground

SpecHierarchy == HierarchyInit /\ [][NextHierarchy]_vars

(***************************************************************************)
(* Properties of grounding, checked under SpecHierarchy.                   *)
(***************************************************************************)
\* C23: ground() preserves pre-existing metadata.extra entries: every key of
\* a HighLevel node's metadata.extra other than paths keeps its value, when
\* the node receives one LCA path and when it receives several.
C23_GroundKeepsExtra ==
    [][Ground =>
          \A k \in HighLevelKeys :
              KeepsUnmentioned(SpreadOfIn(getNode(nodes, k), "metadata", "extra"),
                               [paths |-> "named"],
                               SpreadOfIn(getNode(nodes', k), "metadata", "extra"))]_vars

\* a node that had metadata.extra.note was grounded with several LCA paths
C23_Witness ==
    /\ AfterGround
    /\ \E k \in HighLevelKeys :
          /\ HasExtraPaths(k)
          /\ Len(ExtraPathsOf(k)) > 1
          /\ Has(getNode(nodes, k).metadata.extra, "note")

\* the attributes of a node, metadata aside
OutsideMetadata(node) == [k \in DOMAIN node \ { "metadata" } |-> node[k]]

\* C24: ground() changes nothing except the metadata of HighLevel nodes that
\* have a leaf with a path below them: no node and no edge is added or
\* removed, no LowLevel node is modified, and a HighLevel node without such
\* a leaf is unchanged.
C24_GroundFrame ==
    [][Ground =>
          /\ edges' = edges
          /\ Len(nodes') = Len(nodes)
          /\ \A i \in 1..Len(nodes) :
                /\ nodes'[i].key = nodes[i].key
                /\ OutsideMetadata(nodes'[i].attrs) = OutsideMetadata(nodes[i].attrs)
                /\ (isLowLevelNode(nodes[i].attrs) \/ LeavesBelow(nodes[i].key) = {})
                      => nodes'[i] = nodes[i]]_vars

\* after ground() one HighLevel node has the path of the file below it while
\* another, with no leaf below it, still has no metadata
C24_Witness ==
    /\ AfterGround
    /\ \E k \in HighLevelKeys : HasPath(k) /\ LeavesBelow(k) # {}
    /\ \E k \in HighLevelKeys :
          /\ LeavesBelow(k) = {}
          /\ ~Has(getNode(nodes, k), "metadata")

(***************************************************************************)
(* Termination of grounding, checked under SpecGround.                     *)
(***************************************************************************)
\* C30: ground() terminates on every graph built by addNode and addEdge,
\* also when Functional edges form a cycle below a parentless HighLevel node
\* or give a node several Functional parents: no ground() call is left
\* recursing without end.
C30_GroundTerminates == last.op = "ground" => last.error # "hung"

(***************************************************************************)
(* Properties of DomainDiscovery.discover, checked under SpecDiscover.     *)
(***************************************************************************)
\* the response holds a <solution> tag around a JSON array
TaggedArray(response) ==
    /\ parseSolutionTag(response).threw = "none"
    /\ parseSolutionTag(response).isArray

\* C25: discover re-asks the LLM exactly once when the first response cannot
\* be parsed as a <solution>-tagged JSON array, throws when the second
\* response cannot be parsed either, and never makes more than two LLM calls.
C25_RetryOnceThenFail ==
    /\ discover.pc # "idle" => Len(discover.calls) <= 2
    /\ (Len(SpreadOf(discover, "responses")) >= 1 /\ ~TaggedArray(discover.responses[1]))
          => Len(discover.calls) = 2
    /\ (Len(SpreadOf(discover, "responses")) = 2 /\ ~TaggedArray(discover.responses[2]))
          => discover.pc = "threw"

(***************************************************************************)
(* Properties of the encoder's ids, checked under SpecEncode.              *)
(***************************************************************************)
\* the name of an entity qualified by its parent
QualifiedName(entity) ==
    IF Has(entity, "parent") THEN entity.parent \o "." \o entity.name ELSE entity.name

\* the entities of the parse result that extractEntities keeps
KeptEntities(parsed) ==
    Without(parsed, { i \in 1..Len(parsed) : parsed[i].type \notin MappedTypes })

\* C26: a file node's id is {relativePath}:{entityType} and an entity node's
\* id is {relativePath}:{entityType}:{qualifiedName}, without the line
\* number, so that an entity found at another startLine has the same id.
C26_EntityIds ==
    answer.op = "extractEntities" =>
       LET relativePath == relative(RepoPath, answer.args.file)
           kept == KeptEntities(answer.args.parsed)
       IN /\ answer.result[1].id = relativePath \o ":file"
          /\ Len(answer.result) = Len(kept) + 1
          /\ \A i \in 1..Len(kept) :
                answer.result[i + 1].id =
                   relativePath \o ":" \o kept[i].type \o ":" \o QualifiedName(kept[i])

=============================================================================
